---------------------------- MODULE Spec2Model ----------------------------
(***************************************************************************)
(* Clawpass: a client SDK over the three ERC-8004 registries (identity,    *)
(* reputation, validation).  The model has three layers:                   *)
(*                                                                         *)
(*  1. pure helpers of src/src/utils/index.ts and src/src/schemas/index.ts *)
(*     (strings as sequences of characters, base64, UTF-8, the JSON        *)
(*     codec, the zod schemas);                                            *)
(*  2. the chain and the network as the environment of the client          *)
(*     (registry contents, transaction mining, HTTP);                      *)
(*  3. the client: one call in flight at a time, each asynchronous         *)
(*     operation advancing from one await to the next.                     *)
(***************************************************************************)
EXTENDS Integers, Sequences, FiniteSets, TLC

(***************************************************************************)
(* Bounds of the model.                                                    *)
(***************************************************************************)
\* cap on the number of transactions the client's account submits (its nonce)
MaxNonce == 2

(***************************************************************************)
(* Strings.  A JavaScript string is a sequence of one-character strings;   *)
(* `undefined` is a value of its own.                                      *)
(***************************************************************************)
Undefined == <<"undefined">>

\* JavaScript truthiness of an optional string: undefined and '' are falsy.
Truthy(s) == s # Undefined /\ s # <<>>

\* String.prototype.startsWith
StartsWith(s, p) == Len(s) >= Len(p) /\ SubSeq(s, 1, Len(p)) = p

\* index of the first occurrence of p in s at or after position i, 0 if none
RECURSIVE IndexOfFrom(_, _, _)
IndexOfFrom(s, p, i) ==
    IF i + Len(p) - 1 > Len(s) THEN 0
    ELSE IF SubSeq(s, i, i + Len(p) - 1) = p THEN i
    ELSE IndexOfFrom(s, p, i + 1)

\* String.prototype.split with a one-character separator: the sequence of parts
RECURSIVE Split(_, _)
Split(s, sep) ==
    LET i == IndexOfFrom(s, <<sep>>, 1) IN
    IF i = 0 THEN <<s>>
    ELSE <<SubSeq(s, 1, i - 1)>> \o Split(SubSeq(s, i + 1, Len(s)), sep)

\* String.prototype.replace(p, r) with a string pattern: the first occurrence only
Replace(s, p, r) ==
    LET i == IndexOfFrom(s, p, 1) IN
    IF i = 0 THEN s
    ELSE SubSeq(s, 1, i - 1) \o r \o SubSeq(s, i + Len(p), Len(s))

DataPrefix ==
    <<"d","a","t","a",":","a","p","p","l","i","c","a","t","i","o","n","/",
      "j","s","o","n",";","b","a","s","e","6","4",",">>
DataScheme == <<"d","a","t","a",":">>
IpfsScheme == <<"i","p","f","s",":","/","/">>
HttpScheme == <<"h","t","t","p",":","/","/">>
HttpsScheme == <<"h","t","t","p","s",":","/","/">>
IpfsGateway ==
    <<"h","t","t","p","s",":","/","/","i","p","f","s",".","i","o","/","i","p","f","s","/">>

(***************************************************************************)
(* Base64 (Buffer.from(x).toString('base64') and Buffer.from(s,'base64')). *)
(* Bytes are 0..255.                                                       *)
(***************************************************************************)
B64Alphabet ==
    <<"A","B","C","D","E","F","G","H","I","J","K","L","M","N","O","P",
      "Q","R","S","T","U","V","W","X","Y","Z","a","b","c","d","e","f",
      "g","h","i","j","k","l","m","n","o","p","q","r","s","t","u","v",
      "w","x","y","z","0","1","2","3","4","5","6","7","8","9","+","/">>

B64Char(n) == B64Alphabet[n + 1]

RECURSIVE Base64Encode(_)
Base64Encode(bytes) ==
    IF Len(bytes) = 0 THEN <<>>
    ELSE IF Len(bytes) = 1 THEN
        <<B64Char(bytes[1] \div 4), B64Char((bytes[1] % 4) * 16), "=", "=">>
    ELSE IF Len(bytes) = 2 THEN
        <<B64Char(bytes[1] \div 4),
          B64Char((bytes[1] % 4) * 16 + (bytes[2] \div 16)),
          B64Char((bytes[2] % 16) * 4), "=">>
    ELSE
        <<B64Char(bytes[1] \div 4),
          B64Char((bytes[1] % 4) * 16 + (bytes[2] \div 16)),
          B64Char((bytes[2] % 16) * 4 + (bytes[3] \div 64)),
          B64Char(bytes[3] % 64)>>
        \o Base64Encode(SubSeq(bytes, 4, Len(bytes)))

\* the 6-bit value of a base64 character, -1 for a character outside the alphabet
B64Value(c) ==
    IF \E i \in 1..64 : B64Alphabet[i] = c
    THEN (CHOOSE i \in 1..64 : B64Alphabet[i] = c) - 1
    ELSE -1

\* the sextets of a base64 string: decoding stops at the first '=', and
\* characters outside the alphabet are skipped
RECURSIVE B64Sextets(_)
B64Sextets(s) ==
    IF Len(s) = 0 \/ s[1] = "=" THEN <<>>
    ELSE IF B64Value(s[1]) < 0 THEN B64Sextets(Tail(s))
    ELSE <<B64Value(s[1])>> \o B64Sextets(Tail(s))

RECURSIVE SextetsToBytes(_)
SextetsToBytes(x) ==
    IF Len(x) < 2 THEN <<>>
    ELSE IF Len(x) = 2 THEN <<x[1] * 4 + (x[2] \div 16)>>
    ELSE IF Len(x) = 3 THEN
        <<x[1] * 4 + (x[2] \div 16), (x[2] % 16) * 16 + (x[3] \div 4)>>
    ELSE
        <<x[1] * 4 + (x[2] \div 16), (x[2] % 16) * 16 + (x[3] \div 4),
          (x[3] % 4) * 64 + x[4]>>
        \o SextetsToBytes(SubSeq(x, 5, Len(x)))

Base64Decode(s) == SextetsToBytes(B64Sextets(s))

(***************************************************************************)
(* UTF-8 (Buffer.from(json) and buf.toString('utf-8')).  A text is a       *)
(* sequence of code points; the texts encoded here hold code points below  *)
(* 2048; an invalid byte decodes to U+FFFD.                                *)
(***************************************************************************)
ReplacementChar == 65533

RECURSIVE Utf8Encode(_)
Utf8Encode(text) ==
    IF Len(text) = 0 THEN <<>>
    ELSE (IF text[1] < 128 THEN <<text[1]>>
          ELSE <<192 + (text[1] \div 64), 128 + (text[1] % 64)>>)
         \o Utf8Encode(Tail(text))

RECURSIVE Utf8Decode(_)
Utf8Decode(bytes) ==
    IF Len(bytes) = 0 THEN <<>>
    ELSE IF bytes[1] < 128 THEN <<bytes[1]>> \o Utf8Decode(Tail(bytes))
    ELSE IF /\ bytes[1] >= 194 /\ bytes[1] < 224 /\ Len(bytes) >= 2
            /\ bytes[2] >= 128 /\ bytes[2] < 192
         THEN <<(bytes[1] - 192) * 64 + (bytes[2] - 128)>>
              \o Utf8Decode(SubSeq(bytes, 3, Len(bytes)))
    ELSE <<ReplacementChar>> \o Utf8Decode(Tail(bytes))

(***************************************************************************)
(* Documents.  A JavaScript object is a function from its keys to their    *)
(* values.  The values a field takes in this model are listed per key in   *)
(* FieldValues: JSON texts are built from, and parsed back to, these.      *)
(***************************************************************************)
RegistrationType == "https://eips.ethereum.org/EIPS/eip-8004#registration-v1"

Hex40 ==
    <<"7","4","2","d","3","5","C","c","6","6","3","4","C","0","5","3","2","9","2","5",
      "a","3","b","8","4","4","B","c","9","e","7","5","9","5","f","0","b","E","b","0">>
GoodRegistry == <<"e","i","p","1","5","5",":","1",":","0","x">> \o Hex40
\* the address is one hex digit short
ShortRegistry == <<"e","i","p","1","5","5",":","1",":","0","x">> \o Tail(Hex40)

\* four segments; a third segment with a digit that is no hex digit
LongRegistry == <<"e","i","p","1","5","5",":","1",":","1",":","0","x">> \o Hex40
NonHexRegistry ==
    <<"e","i","p","1","5","5",":","1",":","0","x","g">> \o Tail(Hex40)

ServiceMCP == [name |-> "MCP", endpoint |-> "https://mcp.example.com"]

\* the keys of a JSON text, in the order JSON.stringify writes them in this model
JsonKeys ==
    <<"type", "name", "description", "image", "services", "x402Support",
      "active", "registrations", "supportedTrust", "extra",
      "agentRegistry", "agentId", "clientAddress", "createdAt", "value",
      "valueDecimals", "tag1", "tag2", "endpoint", "mcp", "a2a", "oasf",
      "proofOfPayment">>

\* a JSON number with at most one fractional digit: Num(1, 5) is 1.5
Num(units, tenths) == [units |-> units, tenths |-> tenths]
\* n >= min, n <= max for integers min and max
NumAtLeast(n, min) == n.units >= min
NumAtMost(n, max) == n.units < max \/ (n.units = max /\ n.tenths = 0)

PaymentProof ==
    [fromAddress |-> "0xPayer", toAddress |-> "0xPayee", chainId |-> "1",
     txHash |-> "0xabc"]

FieldValues(k) ==
    CASE k = "type" -> <<RegistrationType, "https://example.com/other">>
      [] k = "name" -> <<"Agent", "Zoe">>
      [] k = "description" -> <<"An agent">>
      [] k = "image" -> <<"https://example.com/a.png">>
      [] k = "services" -> << <<>>, <<ServiceMCP>>, <<[name |-> "MCP"]>> >>
      [] k = "x402Support" -> <<FALSE, TRUE>>
      [] k = "active" -> <<FALSE, TRUE>>
      [] k = "registrations" ->
            << <<>>,
               <<[agentId |-> 1, agentRegistry |-> GoodRegistry]>>,
               <<[agentId |-> 1, agentRegistry |-> ShortRegistry]>> >>
      [] k = "supportedTrust" -> << <<"reputation">>, <<"karma">> >>
      [] k = "extra" -> <<"x-1">>
      [] k = "agentRegistry" -> <<GoodRegistry>>
      [] k = "agentId" -> <<Num(1, 0)>>
      [] k = "clientAddress" -> <<"0xClient">>
      [] k = "createdAt" -> <<"2024-01-01T00:00:00Z">>
      [] k = "value" -> <<Num(100, 0)>>
      [] k = "valueDecimals" ->
            <<Num(0, 0), Num(18, 0), Num(19, 0), Num(-1, 0), Num(1, 5)>>
      [] k = "tag1" -> <<"quality">>
      [] k = "tag2" -> <<"speed">>
      [] k = "endpoint" -> <<"https://mcp.example.com">>
      [] k = "mcp" -> <<[tool |-> "search"]>>
      [] k = "a2a" -> <<[taskId |-> "task-1"]>>
      [] k = "oasf" -> <<[skills |-> <<"nlp">>]>>
      [] k = "proofOfPayment" ->
            <<PaymentProof, [fromAddress |-> "0xPayer", toAddress |-> "0xPayee"]>>

KeyIndex(k) == CHOOSE i \in 1..Len(JsonKeys) : JsonKeys[i] = k
ValueIndex(k, v) == CHOOSE i \in 1..Len(FieldValues(k)) : FieldValues(k)[i] = v

\* the code point that stands for key k, and for value v of key k, in a JSON text;
\* the values of "name" are written with code points above 127
KeyCode(k) == 96 + KeyIndex(k)
ValueCode(k, v) == (IF k = "name" THEN 232 ELSE 48) + ValueIndex(k, v)

\* JSON.stringify: the members of the object between braces; a key the object
\* does not hold is not written
RECURSIVE StringifyFrom(_, _)
StringifyFrom(doc, i) ==
    IF i > Len(JsonKeys) THEN <<>>
    ELSE (IF JsonKeys[i] \in DOMAIN doc
          THEN <<KeyCode(JsonKeys[i]), ValueCode(JsonKeys[i], doc[JsonKeys[i]])>>
          ELSE <<>>)
         \o StringifyFrom(doc, i + 1)

JsonStringify(doc) == <<123>> \o StringifyFrom(doc, 1) \o <<125>>

\* the members of a JSON text: its code points between the braces
JsonBody(text) == SubSeq(text, 2, Len(text) - 1)

JsonKeyAt(text, j) == JsonKeys[JsonBody(text)[2 * j - 1] - 96]

JsonValueAt(text, j) ==
    LET k == JsonKeyAt(text, j) IN
    FieldValues(k)[JsonBody(text)[2 * j] - (IF k = "name" THEN 232 ELSE 48)]

\* whether JSON.parse accepts the text (it throws a SyntaxError otherwise)
JsonWellFormed(text) ==
    /\ Len(text) >= 2
    /\ text[1] = 123
    /\ text[Len(text)] = 125
    /\ Len(JsonBody(text)) % 2 = 0
    /\ \A j \in 1..(Len(JsonBody(text)) \div 2) :
          /\ JsonBody(text)[2 * j - 1] - 96 \in 1..Len(JsonKeys)
          /\ JsonBody(text)[2 * j] - (IF JsonKeyAt(text, j) = "name" THEN 232 ELSE 48)
                \in 1..Len(FieldValues(JsonKeyAt(text, j)))

\* JSON.parse of a well-formed text: the last member of a key wins
JsonParse(text) ==
    LET n == Len(JsonBody(text)) \div 2
        keys == {JsonKeyAt(text, j) : j \in 1..n}
        last(k) == CHOOSE j \in 1..n :
                      /\ JsonKeyAt(text, j) = k
                      /\ \A i \in (j + 1)..n : JsonKeyAt(text, i) # k
    IN [k \in keys |-> JsonValueAt(text, last(k))]

(***************************************************************************)
(* The zod schemas of src/src/schemas/index.ts.  z.object checks every     *)
(* key and collects one issue per violation, each carrying the path of the *)
(* value it is about (a key, then an array index counted from 0 or a       *)
(* nested key); on success it returns a new object holding only the keys   *)
(* the schema names (zod strips the others).  The documents of this model  *)
(* hold values of the right JSON type or no value at a key.                *)
(***************************************************************************)
HexDigits ==
    {"0","1","2","3","4","5","6","7","8","9",
     "a","b","c","d","e","f","A","B","C","D","E","F"}

\* the pattern with {1,40} in place of {40}
AgentRegistryPatternUpTo40(s) ==
    LET parts == Split(s, ":") IN
    /\ Len(parts) = 3
    /\ Len(parts[1]) > 0
    /\ Len(parts[2]) > 0
    /\ Len(parts[3]) \in 3..42
    /\ SubSeq(parts[3], 1, 2) = <<"0", "x">>
    /\ \A i \in 3..Len(parts[3]) : parts[3][i] \in HexDigits

\* /^[^:]+:[^:]+:0x[a-fA-F0-9]{40}$/
AgentRegistryPattern(s) ==
    LET parts == Split(s, ":") IN
    /\ Len(parts) = 3
    /\ Len(parts[1]) > 0
    /\ Len(parts[2]) > 0
    /\ Len(parts[3]) = 42
    /\ SubSeq(parts[3], 1, 2) = <<"0", "x">>
    /\ \A i \in 3..42 : parts[3][i] \in HexDigits

TrustModels == {"reputation", "crypto-economic", "tee-attestation"}

AgentServiceKeys == {"name", "endpoint", "version", "skills", "domains"}
\* the keys of a service entry that violate AgentServiceSchema
AgentServiceIssues(e) == {"name", "endpoint"} \ DOMAIN e
AgentServiceValid(e) == AgentServiceIssues(e) = {}
AgentServiceStrip(e) == [k \in DOMAIN e \cap AgentServiceKeys |-> e[k]]

\* the keys of a registrations entry that violate AgentRegistrationSchema
AgentRegistrationIssues(e) ==
    ({"agentId", "agentRegistry"} \ DOMAIN e)
    \cup {k \in {"agentRegistry"} \cap DOMAIN e : ~AgentRegistryPattern(e[k])}
AgentRegistrationValid(e) == AgentRegistrationIssues(e) = {}

RegistrationFileKeys ==
    {"type", "name", "description", "image", "services", "x402Support",
     "active", "registrations", "supportedTrust"}
RegistrationFileRequired == RegistrationFileKeys \ {"image", "supportedTrust"}

\* the paths of the issues AgentRegistrationFileSchema finds in a parsed document
RegistrationFileIssues(doc) ==
    {<<k>> : k \in RegistrationFileRequired \ DOMAIN doc}
    \cup {<<k>> : k \in {j \in {"type"} \cap DOMAIN doc : doc[j] # RegistrationType}}
    \cup UNION {{<<k, i - 1, f>> : f \in AgentServiceIssues(doc[k][i])} :
                  k \in {"services"} \cap DOMAIN doc, i \in 1..Len(doc.services)}
    \cup UNION {{<<k, i - 1, f>> : f \in AgentRegistrationIssues(doc[k][i])} :
                  k \in {"registrations"} \cap DOMAIN doc,
                  i \in 1..Len(doc.registrations)}
    \cup {<<"supportedTrust", i - 1>> :
            i \in {j \in 1..(IF "supportedTrust" \in DOMAIN doc
                             THEN Len(doc.supportedTrust) ELSE 0) :
                      doc.supportedTrust[j] \notin TrustModels}}

\* the value AgentRegistrationFileSchema.parse returns for a document without issues
RegistrationFileStrip(doc) ==
    [k \in DOMAIN doc \cap RegistrationFileKeys |->
        IF k = "services"
        THEN [i \in 1..Len(doc[k]) |-> AgentServiceStrip(doc[k][i])]
        ELSE doc[k]]

\* a parse that stops at the first issue it finds
AgentRegistrationFileSchemaParseAbortEarly(doc) ==
    LET issues == RegistrationFileIssues(doc) IN
    IF issues = {}
    THEN [ok |-> TRUE, value |-> RegistrationFileStrip(doc), issues |-> {}]
    ELSE [ok |-> FALSE, value |-> <<>>, issues |-> {CHOOSE i \in issues : TRUE}]

\* AgentRegistrationFileSchema.parse: the validated document, or a ZodError
\* that lists every issue
AgentRegistrationFileSchemaParse(doc) ==
    LET issues == RegistrationFileIssues(doc) IN
    IF issues = {}
    THEN [ok |-> TRUE, value |-> RegistrationFileStrip(doc), issues |-> {}]
    ELSE [ok |-> FALSE, value |-> <<>>, issues |-> issues]

FeedbackFileKeys ==
    {"agentRegistry", "agentId", "clientAddress", "createdAt", "value",
     "valueDecimals", "tag1", "tag2", "endpoint", "mcp", "a2a", "oasf",
     "proofOfPayment"}
FeedbackFileRequired ==
    {"agentRegistry", "agentId", "clientAddress", "createdAt", "value",
     "valueDecimals"}
ProofOfPaymentKeys == {"fromAddress", "toAddress", "chainId", "txHash"}

\* valueDecimals: z.number().min(0).max(18)
ValueDecimalsInRange(n) == NumAtLeast(n, 0) /\ NumAtMost(n, 18)

\* the paths of the issues FeedbackFileSchema finds in a parsed document
FeedbackFileIssues(doc) ==
    {<<k>> : k \in FeedbackFileRequired \ DOMAIN doc}
    \cup {<<k>> : k \in {j \in {"valueDecimals"} \cap DOMAIN doc :
                           ~ValueDecimalsInRange(doc[j])}}
    \cup UNION {{<<k, f>> : f \in ProofOfPaymentKeys \ DOMAIN doc[k]} :
                  k \in {"proofOfPayment"} \cap DOMAIN doc}

\* the value FeedbackFileSchema.parse returns for a document without issues
FeedbackFileStrip(doc) == [k \in DOMAIN doc \cap FeedbackFileKeys |-> doc[k]]

\* FeedbackFileSchema.parse
FeedbackFileSchemaParse(doc) ==
    LET issues == FeedbackFileIssues(doc) IN
    IF issues = {}
    THEN [ok |-> TRUE, value |-> FeedbackFileStrip(doc), issues |-> {}]
    ELSE [ok |-> FALSE, value |-> <<>>, issues |-> issues]

(***************************************************************************)
(* Data URIs (src/src/utils/index.ts).                                     *)
(***************************************************************************)
\* createDataURI
createDataURI(registrationFile) ==
    DataPrefix \o Base64Encode(Utf8Encode(JsonStringify(registrationFile)))

\* the decoding with toString('latin1'): every byte is a character
DecodeAfterCommaLatin1(uri) ==
    LET parts == Split(uri, ",") IN
    IF Len(parts) < 2
    THEN [ok |-> FALSE, text |-> <<>>]
    ELSE [ok |-> TRUE, text |-> Base64Decode(parts[2])]

\* const base64Data = uri.split(',')[1]; Buffer.from(base64Data, 'base64')
\* .toString('utf-8'): the decoded text, or a TypeError when the URI holds no
\* comma (Buffer.from(undefined, 'base64') throws)
DecodeAfterComma(uri) ==
    LET parts == Split(uri, ",") IN
    IF Len(parts) < 2
    THEN [ok |-> FALSE, text |-> <<>>]
    ELSE [ok |-> TRUE, text |-> Utf8Decode(Base64Decode(parts[2]))]

\* parseDataURI: the parsed object or the error thrown
parseDataURI(dataURI) ==
    IF ~StartsWith(dataURI, DataPrefix)
    THEN [ok |-> FALSE, value |-> <<>>, error |-> "Invalid data URI format"]
    ELSE LET json == DecodeAfterComma(dataURI).text IN
         IF ~JsonWellFormed(json)
         THEN [ok |-> FALSE, value |-> <<>>, error |-> "SyntaxError"]
         ELSE [ok |-> TRUE, value |-> JsonParse(json), error |-> ""]

(***************************************************************************)
(* The environment: the three registries, transactions, HTTP.              *)
(***************************************************************************)
SignerAddress == "0xSigner"
OtherAddress == "0xOther"
NewWallet == "0xWallet"
ZeroAddress == "0x0000000000000000000000000000000000000000"
ZeroHash == <<"0", "x", "0">>

\* the documents a caller encodes or a web server holds
MinimalDoc ==
    [type |-> RegistrationType, name |-> "Agent", description |-> "An agent",
     services |-> <<>>, x402Support |-> FALSE, active |-> TRUE,
     registrations |-> <<>>]
FullDoc ==
    [type |-> RegistrationType, name |-> "Zoe", description |-> "An agent",
     image |-> "https://example.com/a.png", services |-> <<ServiceMCP>>,
     x402Support |-> TRUE, active |-> TRUE,
     registrations |-> <<[agentId |-> 1, agentRegistry |-> GoodRegistry]>>,
     supportedTrust |-> <<"reputation">>]
WrongTypeDoc ==
    [type |-> "https://example.com/other", name |-> "Agent",
     description |-> "An agent", services |-> <<>>, x402Support |-> FALSE,
     active |-> TRUE, registrations |-> <<>>]

HttpsURI == HttpsScheme \o <<"a", ".", "i", "o", "/", "r">>
IpfsURI == IpfsScheme \o <<"Q", "m", "T">>
FtpURI == <<"f", "t", "p", ":", "/", "/", "x">>
HttpURI == HttpScheme \o <<"b", ".", "i", "o">>
\* a data URI of another media type, its payload the base64 of a valid document
DataTextPrefix ==
    <<"d","a","t","a",":","t","e","x","t","/","p","l","a","i","n",";",
      "b","a","s","e","6","4",",">>
DataTextURI == DataTextPrefix \o Base64Encode(Utf8Encode(JsonStringify(MinimalDoc)))

\* what an HTTP GET may answer: the text of a valid document, of a document
\* the schema rejects, or a text that is no JSON
WebContents ==
    {JsonStringify(MinimalDoc), JsonStringify(WrongTypeDoc), <<60, 104, 62>>}

\* a valid document with a key the schema does not name
ExtraDoc == [k \in DOMAIN MinimalDoc \cup {"extra"} |->
                IF k = "extra" THEN "x-1" ELSE MinimalDoc[k]]

\* FullDoc with the fields of D spoiled: another type literal, no name, no
\* active flag, a service without endpoint, a registry one hex digit short,
\* an unknown trust model
SpoiledFields ==
    {"type", "name", "active", "services", "registrations", "supportedTrust"}
Spoiled(D) ==
    [k \in DOMAIN FullDoc \ (D \cap {"name", "active"}) |->
        IF k \notin D THEN FullDoc[k]
        ELSE CASE k = "type" -> "https://example.com/other"
               [] k = "services" -> <<[name |-> "MCP"]>>
               [] k = "registrations" ->
                     <<[agentId |-> 1, agentRegistry |-> ShortRegistry]>>
               [] k = "supportedTrust" -> <<"karma">>]

\* MinimalDoc with one registrations entry of the given registry
RegistryStrings == {GoodRegistry, ShortRegistry, LongRegistry, NonHexRegistry}
WithRegistry(r) ==
    [MinimalDoc EXCEPT !.registrations = <<[agentId |-> 1, agentRegistry |-> r]>>]

\* the raw registration documents a caller validates
RawRegistrations ==
    {Spoiled(D) : D \in SUBSET SpoiledFields}
    \cup {WithRegistry(r) : r \in RegistryStrings}
    \cup {MinimalDoc, ExtraDoc}

\* the feedback document holding the six required fields only
MinimalFeedback ==
    [agentRegistry |-> GoodRegistry, agentId |-> Num(1, 0),
     clientAddress |-> "0xClient", createdAt |-> "2024-01-01T00:00:00Z",
     value |-> Num(100, 0), valueDecimals |-> Num(0, 0)]

\* the optional and unknown members a feedback document may hold besides
NoMembers == [k \in {} |-> ""]
FeedbackMembers ==
    {NoMembers,
     [extra |-> "x-1"],
     [tag1 |-> "quality", mcp |-> [tool |-> "search"],
      proofOfPayment |-> PaymentProof, extra |-> "x-1"],
     [proofOfPayment |-> [fromAddress |-> "0xPayer", toAddress |-> "0xPayee"]]}
DecimalCounts == {Num(0, 0), Num(18, 0), Num(19, 0), Num(-1, 0), Num(1, 5)}

\* MinimalFeedback without the keys of missing, with the given valueDecimals
\* and the given further members
FeedbackWith(missing, decimals, members) ==
    [k \in (DOMAIN MinimalFeedback \ missing) \cup DOMAIN members |->
        IF k \in DOMAIN members THEN members[k]
        ELSE IF k = "valueDecimals" THEN decimals
        ELSE MinimalFeedback[k]]

\* the raw feedback documents a caller validates
RawFeedbacks ==
    {FeedbackWith(missing, decimals, members) :
        missing \in SUBSET {"agentId", "createdAt"},
        decimals \in DecimalCounts,
        members \in FeedbackMembers}

\* the feedback URIs a caller passes, one of them a data URI of a valid document
FeedbackDataURI == createDataURI(MinimalFeedback)
FeedbackURIs == {IpfsURI, HttpURI, HttpsURI, FtpURI, FeedbackDataURI}

\* what an HTTP GET of a feedback URI may answer
FeedbackContents ==
    {JsonStringify(d) :
        d \in {FeedbackWith({}, n, m) :
                 n \in {Num(0, 0), Num(19, 0), Num(1, 5)},
                 m \in {NoMembers, [extra |-> "x-1"]}}
              \cup {FeedbackWith({"agentId", "createdAt"}, Num(19, 0), NoMembers)}}
    \cup {<<60, 104, 62>>}

NoTx == [method |-> "", args |-> <<>>]
NoResult == [status |-> "none", value |-> <<>>, error |-> ""]
Ok(v) == [status |-> "ok", value |-> v, error |-> ""]
Err(msg) == [status |-> "error", value |-> <<>>, error |-> msg]
\* an error whose message names the offending input
ErrWith(msg, detail) == [status |-> "error", value |-> detail, error |-> msg]

\* x || d on an optional string
OrElse(x, d) == IF Truthy(x) THEN x ELSE d

(***************************************************************************)
(* The connection.  A client is constructed with `providerOrSigner`, an    *)
(* ethers v6 object (the package's peer dependency).  What the constructors*)
(* and the Contract look at: whether it is a Signer (it has                *)
(* sendTransaction) and whether it holds a truthy `provider` property.  A  *)
(* Wallet holds its provider, or null when it was built without one; a     *)
(* Provider of ethers v6 holds itself (`get provider() { return this }`);  *)
(* an object of the Provider shape written without that property is the    *)
(* fourth case.                                                            *)
(***************************************************************************)
Connections == [kind : {"signer", "provider"}, provider : BOOLEAN]

\* `'provider' in providerOrSigner && providerOrSigner.provider`: whether the
\* constructor sets this.signer
HasSigner(providerOrSigner) == providerOrSigner.provider

\* new Contract(address, abi, providerOrSigner): whether the contract's runner
\* can send a transaction, and whether it can call the chain at all
CanSend(providerOrSigner) == providerOrSigner.kind = "signer"
CanCall(providerOrSigner) ==
    providerOrSigner.kind = "provider" \/ providerOrSigner.provider

VARIABLES
    connection,   \* the providerOrSigner the client was constructed with
    nonce,        \* transactions the client's account has submitted
    agents,       \* identity registry: agent i is agents[i] = [uri, owner, wallet]
    feedbacks,    \* reputation registry: the feedback given, in order
    validations,  \* validation registry: requestHash -> status, for the requested hashes
    pc,           \* where the call in flight is suspended ("idle": none in flight)
    op,           \* the call in flight, or the last one: [name, args]
    calls,        \* what that call asked of the chain and the network, in order
    pending,      \* the transaction that call submitted
    result,       \* how the last call ended
    locals        \* the local variables of the call in flight that outlive an await

vars ==
    <<connection, nonce, agents, feedbacks, validations, pc, op, calls, pending,
      result, locals>>

chain == <<agents, feedbacks, validations>>

NoLocals == <<>>

\* this.signer is set
signer == HasSigner(connection)

\* how a contract read may end: it succeeds only over a runner that reaches a
\* node, and may fail over any
CallOutcomes == IF CanCall(connection) THEN BOOLEAN ELSE {FALSE}

Init ==
    /\ connection \in Connections
    /\ nonce = 0
    /\ agents = <<[uri |-> HttpsURI, owner |-> OtherAddress, wallet |-> OtherAddress]>>
    /\ feedbacks = <<>>
    /\ validations = <<>>
    /\ pc = "idle"
    /\ op = [name |-> "", args |-> <<>>]
    /\ calls = <<>>
    /\ pending = NoTx
    /\ result = NoResult
    /\ locals = NoLocals

\* a collaborator event of a call
Event(kind, method, args) == [kind |-> kind, method |-> method, args |-> args]

AgentIds == 1..(Len(agents) + 1)

(***************************************************************************)
(* Transactions.  A write is `const tx = await contract.m(...)` followed   *)
(* by `await tx.wait()`: the call is suspended twice, first until the node *)
(* has taken (or refused) the transaction, then until it is mined (or has  *)
(* reverted).                                                              *)
(***************************************************************************)
Registered(a) == a \in 1..Len(agents)
OwnedBySigner(a) == Registered(a) /\ agents[a].owner = SignerAddress

\* feedback index i of the signer on agent a: its position in feedbacks, 0 if none
FeedbackAt(a, i) ==
    LET own == {j \in 1..Len(feedbacks) :
                   feedbacks[j].agentId = a /\ feedbacks[j].clientAddress = SignerAddress}
        upto(j) == Cardinality({x \in own : x <= j})
    IN IF \E j \in own : upto(j) = i THEN CHOOSE j \in own : upto(j) = i ELSE 0

LastIndex(a, c) ==
    Cardinality({j \in 1..Len(feedbacks) :
                    feedbacks[j].agentId = a /\ feedbacks[j].clientAddress = c})

\* whether the registry executes the transaction (it reverts otherwise)
TxValid(tx) ==
    CASE tx.method \in {"setAgentURI", "setMetadata", "setAgentWallet",
                        "unsetAgentWallet"} ->
            OwnedBySigner(tx.args[1])
      [] tx.method = "giveFeedback" -> Registered(tx.args[1])
      [] tx.method = "validationRequest" -> Registered(tx.args[2])
      [] tx.method = "revokeFeedback" ->
            /\ FeedbackAt(tx.args[1], tx.args[2]) # 0
            /\ ~feedbacks[FeedbackAt(tx.args[1], tx.args[2])].isRevoked
      [] tx.method = "appendResponse" -> Registered(tx.args[1])
      [] tx.method = "validationResponse" -> tx.args[1] \in DOMAIN validations
      [] OTHER -> TRUE

NewAgent(uri) == [uri |-> uri, owner |-> SignerAddress, wallet |-> SignerAddress]

AgentsAfter(tx) ==
    CASE tx.method = "register()" -> Append(agents, NewAgent(<<>>))
      [] tx.method \in {"register(string)", "register(string,(string,bytes)[])"} ->
            Append(agents, NewAgent(tx.args[1]))
      [] tx.method = "setAgentURI" -> [agents EXCEPT ![tx.args[1]].uri = tx.args[2]]
      [] tx.method = "setAgentWallet" ->
            [agents EXCEPT ![tx.args[1]].wallet = tx.args[2]]
      [] tx.method = "unsetAgentWallet" ->
            [agents EXCEPT ![tx.args[1]].wallet = ZeroAddress]
      [] OTHER -> agents

FeedbacksAfter(tx) ==
    CASE tx.method = "giveFeedback" ->
            Append(feedbacks,
                   [agentId |-> tx.args[1], clientAddress |-> SignerAddress,
                    feedbackIndex |-> LastIndex(tx.args[1], SignerAddress) + 1,
                    value |-> tx.args[2], valueDecimals |-> tx.args[3],
                    tag1 |-> tx.args[4], tag2 |-> tx.args[5], isRevoked |-> FALSE])
      [] tx.method = "revokeFeedback" ->
            [feedbacks EXCEPT ![FeedbackAt(tx.args[1], tx.args[2])].isRevoked = TRUE]
      [] OTHER -> feedbacks

ValidationsAfter(tx) ==
    CASE tx.method = "validationRequest" ->
            [h \in DOMAIN validations \cup {tx.args[4]} |->
                IF h = tx.args[4]
                THEN [validatorAddress |-> tx.args[1], agentId |-> tx.args[2],
                      response |-> 0, responseHash |-> ZeroHash, tag |-> <<>>,
                      lastUpdate |-> 0]
                ELSE validations[h]]
      [] tx.method = "validationResponse" ->
            [validations EXCEPT ![tx.args[1]] =
                [@ EXCEPT !.response = tx.args[2], !.responseHash = tx.args[4],
                          !.tag = tx.args[5], !.lastUpdate = nonce]]
      [] OTHER -> validations

IsRegisterTx(tx) ==
    tx.method \in {"register()", "register(string)", "register(string,(string,bytes)[])"}

\* what a contract method that sends throws over a runner that cannot send
RunnerCannotSend == "contract runner does not support sending transactions"

\* A write operation, from its entry to its first await: the signer check,
\* the local validation (localError is "" when the input passes), then the
\* contract method is invoked with txargs; over a runner that cannot send it
\* throws before anything is sent.
WriteOp(name, args, signerMsg, localError, method, txargs) ==
    /\ pc = "idle"
    /\ (signer /\ localError = "" /\ CanSend(connection)) => nonce < MaxNonce
    /\ op' = [name |-> name, args |-> args]
    /\ locals' = NoLocals
    /\ IF ~signer
       THEN /\ result' = Err(signerMsg)
            /\ calls' = <<>>
            /\ pending' = NoTx
            /\ pc' = "idle"
       ELSE IF localError # ""
       THEN /\ result' = Err(localError)
            /\ calls' = <<>>
            /\ pending' = NoTx
            /\ pc' = "idle"
       ELSE IF ~CanSend(connection)
       THEN /\ result' = Err(RunnerCannotSend)
            /\ calls' = <<>>
            /\ pending' = NoTx
            /\ pc' = "idle"
       ELSE /\ result' = NoResult
            /\ calls' = <<Event("submit", method, txargs)>>
            /\ pending' = [method |-> method, args |-> txargs]
            /\ pc' = "submitting"
    /\ UNCHANGED <<connection, nonce, chain>>

\* a write that returns once its transaction is submitted, without tx.wait()
TxSubmittedNoWait ==
    /\ pc = "submitting"
    /\ \E accepted \in BOOLEAN :
          IF accepted
          THEN /\ nonce' = nonce + 1
               /\ result' = Ok(<<>>)
          ELSE /\ nonce' = nonce
               /\ result' = Err("submission failed")
    /\ pc' = "idle"
    /\ UNCHANGED <<connection, chain, op, calls, pending, locals>>

\* `await contract.m(...)` settles: the node took the transaction and the
\* call goes on to tx.wait(), or the submission failed and the call throws
TxSubmitted ==
    /\ pc = "submitting"
    /\ \E accepted \in BOOLEAN :
          IF accepted
          THEN /\ nonce' = nonce + 1
               /\ calls' = Append(calls, Event("wait", pending.method, pending.args))
               /\ pc' = "confirming"
               /\ result' = result
          ELSE /\ nonce' = nonce
               /\ calls' = calls
               /\ pc' = "idle"
               /\ result' = Err("submission failed")
    /\ UNCHANGED <<connection, chain, op, pending, locals>>

\* A log of a receipt: the name of its parsed fragment ("" when the log has
\* no fragment) and the agentId among its arguments (0 when it has none).
Log(fragment, agentId) == [fragment |-> fragment, agentId |-> agentId]

\* the receipts a mined register may carry for the agent it minted: the
\* mint's Transfer then Registered, an unparsed log then Registered, or no
\* Registered at all (a non-conforming contract)
RegisterReceipts(agentId) ==
    {<<Log("Transfer", 0), Log("Registered", agentId)>>,
     <<Log("", 0), Log("Registered", agentId)>>,
     <<Log("Transfer", 0)>>}

\* receipt.logs.find(log => log.fragment && log.fragment.name === 'Registered'):
\* the position of the first such log, 0 if none
FindRegistered(logs) ==
    LET hits == {i \in 1..Len(logs) : logs[i].fragment = "Registered"} IN
    IF hits = {} THEN 0 ELSE CHOOSE i \in hits : \A j \in hits : i <= j

\* register that returns the agentId of the receipt's first log
RegisterResultFirstLog(logs) == Ok(logs[1].agentId)

\* what register returns from the receipt: the agentId of its Registered event
RegisterResult(logs) ==
    IF FindRegistered(logs) = 0
    THEN Err("Registration event not found")
    ELSE Ok(logs[FindRegistered(logs)].agentId)

\* `await tx.wait()` settles: the transaction was mined and the call returns,
\* or it reverted and the call throws.  A receipt of register may lack the
\* Registered event (a non-conforming contract).
TxConfirmed ==
    /\ pc = "confirming"
    /\ \E mined \in BOOLEAN :
          /\ mined => TxValid(pending)
          /\ IF mined
             THEN /\ agents' = AgentsAfter(pending)
                  /\ feedbacks' = FeedbacksAfter(pending)
                  /\ validations' = ValidationsAfter(pending)
                  /\ calls' = Append(calls, Event("confirmed", pending.method, pending.args))
                  /\ IF IsRegisterTx(pending)
                     THEN \E logs \in RegisterReceipts(Len(agents) + 1) :
                             /\ locals' = [receipt |-> logs]
                             /\ result' = RegisterResult(logs)
                     ELSE /\ locals' = locals
                          /\ result' = Ok(<<>>)
             ELSE /\ UNCHANGED <<chain, locals>>
                  /\ calls' = Append(calls, Event("reverted", pending.method, pending.args))
                  /\ result' = Err("transaction failed")
    /\ pc' = "idle"
    /\ UNCHANGED <<connection, nonce, op, pending>>

(***************************************************************************)
(* IdentityRegistryClient: writes.                                         *)
(***************************************************************************)
MetadataEntry == [metadataKey |-> "k", metadataValue |-> "0x01"]
\* the optional metadata argument: absent, [], or one entry
MetadataArgs ==
    {[defined |-> FALSE, items |-> <<>>],
     [defined |-> TRUE, items |-> <<>>],
     [defined |-> TRUE, items |-> <<MetadataEntry>>]}

RegisterURIs == {Undefined, <<>>, createDataURI(MinimalDoc), createDataURI(FullDoc)}
SetURIs == {IpfsURI, FtpURI, HttpURI, DataTextURI}

\* register that tests agentURI alone
RegisterMethodURIOnly(agentURI, metadata) ==
    IF Truthy(agentURI) THEN "register(string)" ELSE "register()"

\* the contract method register dispatches to
RegisterMethod(agentURI, metadata) ==
    IF Truthy(agentURI) /\ metadata.defined /\ Len(metadata.items) > 0
    THEN "register(string,(string,bytes)[])"
    ELSE IF Truthy(agentURI) THEN "register(string)"
    ELSE "register()"

RegisterArgs(agentURI, metadata) ==
    IF Truthy(agentURI) /\ metadata.defined /\ Len(metadata.items) > 0
    THEN <<agentURI,
           [i \in 1..Len(metadata.items) |->
              [metadataKey |-> metadata.items[i].metadataKey,
               metadataValue |-> metadata.items[i].metadataValue]]>>
    ELSE IF Truthy(agentURI) THEN <<agentURI>>
    ELSE <<>>

register ==
    \E agentURI \in RegisterURIs, metadata \in MetadataArgs :
        WriteOp("register", <<agentURI, metadata>>,
                "Signer required for registration", "",
                RegisterMethod(agentURI, metadata), RegisterArgs(agentURI, metadata))

setAgentURI ==
    \E agentId \in AgentIds, newURI \in SetURIs :
        WriteOp("setAgentURI", <<agentId, newURI>>,
                "Signer required for updating URI", "",
                "setAgentURI", <<agentId, newURI>>)

setMetadata ==
    \E agentId \in AgentIds :
        WriteOp("setMetadata", <<agentId, "k", "0x01">>,
                "Signer required for setting metadata", "",
                "setMetadata", <<agentId, "k", "0x01">>)

setAgentWallet ==
    \E agentId \in AgentIds :
        WriteOp("setAgentWallet", <<agentId, NewWallet, 99, "0xsig">>,
                "Signer required for setting agent wallet", "",
                "setAgentWallet", <<agentId, NewWallet, 99, "0xsig">>)

unsetAgentWallet ==
    \E agentId \in AgentIds :
        WriteOp("unsetAgentWallet", <<agentId>>,
                "Signer required for unsetting agent wallet", "",
                "unsetAgentWallet", <<agentId>>)

(***************************************************************************)
(* ReputationRegistryClient and ValidationRegistryClient: writes.          *)
(***************************************************************************)
TagQ == <<"q">>
EndpointE == <<"e">>
HashH == <<"0", "x", "h">>

\* the FeedbackData a caller passes: optional fields absent or present
FeedbackInputs ==
    {[agentId |-> 1, value |-> 45, valueDecimals |-> d,
      tag1 |-> Undefined, tag2 |-> Undefined, endpoint |-> Undefined,
      feedbackURI |-> Undefined, feedbackHash |-> Undefined] :
        d \in {-1, 0, 18, 19}}
    \cup {[agentId |-> 1, value |-> 45, valueDecimals |-> d,
           tag1 |-> TagQ, tag2 |-> <<>>, endpoint |-> EndpointE,
           feedbackURI |-> IpfsURI, feedbackHash |-> HashH] : d \in {1, 19}}

\* giveFeedback's check without its lower bound
FeedbackErrorUpperOnly(feedback) ==
    IF feedback.valueDecimals > 18
    THEN "valueDecimals must be between 0 and 18" ELSE ""

\* giveFeedback's check of its input: the message of the error thrown, "" if none
FeedbackError(feedback) ==
    IF feedback.valueDecimals < 0 \/ feedback.valueDecimals > 18
    THEN "valueDecimals must be between 0 and 18" ELSE ""

\* the arguments with an absent feedbackHash left undefined
FeedbackArgsNoHashDefault(feedback) ==
    <<feedback.agentId, feedback.value, feedback.valueDecimals,
      OrElse(feedback.tag1, <<>>), OrElse(feedback.tag2, <<>>),
      OrElse(feedback.endpoint, <<>>), OrElse(feedback.feedbackURI, <<>>),
      feedback.feedbackHash>>

\* the eight arguments of the contract call: tag1 || '', tag2 || '',
\* endpoint || '', feedbackURI || '', feedbackHash || ethers.ZeroHash
FeedbackArgs(feedback) ==
    <<feedback.agentId, feedback.value, feedback.valueDecimals,
      OrElse(feedback.tag1, <<>>), OrElse(feedback.tag2, <<>>),
      OrElse(feedback.endpoint, <<>>), OrElse(feedback.feedbackURI, <<>>),
      OrElse(feedback.feedbackHash, ZeroHash)>>

giveFeedback ==
    \E feedback \in FeedbackInputs :
        WriteOp("giveFeedback", <<feedback>>,
                "Signer required for giving feedback",
                FeedbackError(feedback),
                "giveFeedback",
                FeedbackArgs(feedback))

revokeFeedback ==
    \E agentId \in {1}, feedbackIndex \in {1, 2} :
        WriteOp("revokeFeedback", <<agentId, feedbackIndex>>,
                "Signer required for revoking feedback", "",
                "revokeFeedback", <<agentId, feedbackIndex>>)

appendResponse ==
    \E responseHash \in {Undefined, HashH} :
        WriteOp("appendResponse", <<1, SignerAddress, 1, HttpsURI, responseHash>>,
                "Signer required for appending response", "",
                "appendResponse",
                <<1, SignerAddress, 1, HttpsURI, OrElse(responseHash, ZeroHash)>>)

RequestHashes == {"0xreq1"}

validationRequest ==
    \E agentId \in AgentIds, requestHash \in RequestHashes :
        WriteOp("validationRequest",
                <<[validatorAddress |-> OtherAddress, agentId |-> agentId,
                   requestURI |-> IpfsURI, requestHash |-> requestHash]>>,
                "Signer required for validation request", "",
                "validationRequest", <<OtherAddress, agentId, IpfsURI, requestHash>>)

\* the ValidationResponse a caller passes
ResponseInputs ==
    {[requestHash |-> h, response |-> r, responseURI |-> Undefined,
      responseHash |-> Undefined, tag |-> Undefined] :
        h \in RequestHashes, r \in {-1, 0, 100, 101}}
    \cup {[requestHash |-> h, response |-> r, responseURI |-> IpfsURI,
           responseHash |-> HashH, tag |-> TagQ] :
              h \in RequestHashes, r \in {50, 101}}

\* validationResponse's check with the upper bound one too high
ResponseErrorOffByOne(response) ==
    IF response.response < 0 \/ response.response > 101
    THEN "response must be between 0 and 100" ELSE ""

\* validationResponse's check of its input: the message of the error thrown,
\* "" if none
ResponseError(response) ==
    IF response.response < 0 \/ response.response > 100
    THEN "response must be between 0 and 100" ELSE ""

validationResponse ==
    \E response \in ResponseInputs :
        WriteOp("validationResponse", <<response>>,
                "Signer required for validation response",
                ResponseError(response),
                "validationResponse",
                <<response.requestHash, response.response,
                  OrElse(response.responseURI, <<>>),
                  OrElse(response.responseHash, ZeroHash),
                  OrElse(response.tag, <<>>)>>)

(***************************************************************************)
(* What the registries answer to a read.                                   *)
(***************************************************************************)
\* the positions of the feedback of agent a that pass the filter; an empty
\* client list and an empty tag do not filter
Matching(a, clients, tag1, tag2, includeRevoked) ==
    SelectSeq([j \in 1..Len(feedbacks) |-> j],
              LAMBDA j :
                 /\ feedbacks[j].agentId = a
                 /\ (Len(clients) = 0
                     \/ \E c \in 1..Len(clients) : clients[c] = feedbacks[j].clientAddress)
                 /\ (tag1 = <<>> \/ feedbacks[j].tag1 = tag1)
                 /\ (tag2 = <<>> \/ feedbacks[j].tag2 = tag2)
                 /\ (includeRevoked \/ ~feedbacks[j].isRevoked))

RECURSIVE SumValues(_)
SumValues(js) == IF Len(js) = 0 THEN 0 ELSE feedbacks[js[1]].value + SumValues(Tail(js))

\* ReputationRegistry.getSummary
ContractGetSummary(a, clients, tag1, tag2) ==
    LET js == Matching(a, clients, tag1, tag2, FALSE) IN
    [count |-> Len(js),
     summaryValue |-> IF Len(js) = 0 THEN 0 ELSE SumValues(js) \div Len(js),
     summaryValueDecimals |-> IF Len(js) = 0 THEN 0 ELSE feedbacks[js[1]].valueDecimals]

\* ReputationRegistry.readAllFeedback: seven parallel arrays
ContractReadAllFeedback(a, clients, tag1, tag2, includeRevoked) ==
    LET js == Matching(a, clients, tag1, tag2, includeRevoked) IN
    [clients |-> [i \in 1..Len(js) |-> feedbacks[js[i]].clientAddress],
     feedbackIndexes |-> [i \in 1..Len(js) |-> feedbacks[js[i]].feedbackIndex],
     values |-> [i \in 1..Len(js) |-> feedbacks[js[i]].value],
     valueDecimals |-> [i \in 1..Len(js) |-> feedbacks[js[i]].valueDecimals],
     tag1s |-> [i \in 1..Len(js) |-> feedbacks[js[i]].tag1],
     tag2s |-> [i \in 1..Len(js) |-> feedbacks[js[i]].tag2],
     revokedStatuses |-> [i \in 1..Len(js) |-> feedbacks[js[i]].isRevoked]]

\* a read that checks for a signer first, as the writes do
ReadOpSignerChecked(name, args, localError, method, readargs, answerOk, answer) ==
    /\ pc = "idle"
    /\ op' = [name |-> name, args |-> args]
    /\ locals' = NoLocals
    /\ pending' = NoTx
    /\ pc' = "idle"
    /\ IF ~signer
       THEN /\ result' = Err("Signer required for registration")
            /\ calls' = <<>>
       ELSE IF localError # ""
       THEN /\ result' = Err(localError)
            /\ calls' = <<>>
       ELSE /\ calls' = <<Event("read", method, readargs)>>
            /\ \E netOk \in CallOutcomes :
                  result' = IF netOk /\ answerOk THEN Ok(answer) ELSE Err("call failed")
    /\ UNCHANGED <<connection, nonce, chain>>

\* A read operation that is one contract call: the local check (localError is
\* "" when the input passes), the call, and the value built from its answer.
\* The call fails when the contract reverts (~answerOk) or the transport does.
ReadOp(name, args, localError, method, readargs, answerOk, answer) ==
    /\ pc = "idle"
    /\ op' = [name |-> name, args |-> args]
    /\ locals' = NoLocals
    /\ pending' = NoTx
    /\ pc' = "idle"
    /\ IF localError # ""
       THEN /\ result' = Err(localError)
            /\ calls' = <<>>
       ELSE /\ calls' = <<Event("read", method, readargs)>>
            /\ \E netOk \in CallOutcomes :
                  result' = IF netOk /\ answerOk THEN Ok(answer) ELSE Err("call failed")
    /\ UNCHANGED <<connection, nonce, chain>>

(***************************************************************************)
(* IdentityRegistryClient: reads.                                          *)
(***************************************************************************)
getAgentURI ==
    \E agentId \in AgentIds :
        ReadOp("getAgentURI", <<agentId>>, "", "tokenURI", <<agentId>>,
               Registered(agentId), agents[agentId].uri)

getOwner ==
    \E agentId \in AgentIds :
        ReadOp("getOwner", <<agentId>>, "", "ownerOf", <<agentId>>,
               Registered(agentId), agents[agentId].owner)

getAgentWallet ==
    \E agentId \in AgentIds :
        ReadOp("getAgentWallet", <<agentId>>, "", "getAgentWallet", <<agentId>>,
               Registered(agentId), agents[agentId].wallet)

\* how getAgentRegistrationFile resolves a URI: "data" (decoded locally),
\* "fetch" (an HTTP GET of FetchURL) or "unsupported"
ResolveKind(uri) ==
    IF StartsWith(uri, DataScheme) THEN "data"
    ELSE IF StartsWith(uri, IpfsScheme) THEN "fetch"
    ELSE IF StartsWith(uri, HttpScheme) \/ StartsWith(uri, HttpsScheme) THEN "fetch"
    ELSE "unsupported"

\* the gateway URL built without taking the scheme off the URI
FetchURLKeepScheme(uri) ==
    IF StartsWith(uri, IpfsScheme) THEN IpfsGateway \o uri ELSE uri

FetchURL(uri) ==
    IF StartsWith(uri, IpfsScheme)
    THEN IpfsGateway \o Replace(uri, IpfsScheme, <<>>)
    ELSE uri

\* JSON.parse(content) then AgentRegistrationFileSchema.parse(data)
ParseRegistrationFile(content) ==
    IF ~JsonWellFormed(content) THEN Err("SyntaxError")
    ELSE LET parsed == AgentRegistrationFileSchemaParse(JsonParse(content)) IN
         IF parsed.ok THEN Ok(parsed.value) ELSE ErrWith("ZodError", parsed.issues)

\* the data: branch, the parse and the validation
RegistrationFromDataURI(uri) ==
    LET decoded == DecodeAfterComma(uri) IN
    IF ~decoded.ok THEN Err("TypeError") ELSE ParseRegistrationFile(decoded.text)

\* what fetch(url) then response.text() may give: a content, or a network error
FetchOutcomes == {[ok |-> TRUE, text |-> c] : c \in WebContents}
                 \cup {[ok |-> FALSE, text |-> <<>>]}

AfterFetch(outcome) ==
    IF outcome.ok THEN ParseRegistrationFile(outcome.text) ELSE Err("fetch failed")

\* a getAgentRegistrationFile that answers from the last call's result when
\* that call read the same agent's file
getAgentRegistrationFileCached ==
    /\ pc = "idle"
    /\ \E agentId \in AgentIds :
          /\ op' = [name |-> "getAgentRegistrationFile", args |-> <<agentId>>]
          /\ IF op = op' /\ result.status = "ok"
             THEN /\ calls' = <<>>
                  /\ result' = result
                  /\ pc' = "idle"
             ELSE /\ Registered(agentId)
                  /\ ResolveKind(agents[agentId].uri) = "fetch"
                  /\ calls' = <<Event("read", "tokenURI", <<agentId>>),
                                Event("fetch", "GET", <<FetchURL(agents[agentId].uri)>>)>>
                  /\ result' = NoResult
                  /\ pc' = "fetching"
    /\ locals' = NoLocals
    /\ pending' = NoTx
    /\ UNCHANGED <<connection, nonce, chain>>

\* getAgentRegistrationFile up to its second await: the URI is read; a data
\* URI is decoded, parsed and validated at once, an ipfs or http(s) URI is
\* fetched, any other fails
getAgentRegistrationFile ==
    /\ pc = "idle"
    /\ \E agentId \in AgentIds, netOk \in CallOutcomes :
          /\ op' = [name |-> "getAgentRegistrationFile", args |-> <<agentId>>]
          /\ IF ~(netOk /\ Registered(agentId))
             THEN /\ calls' = <<Event("read", "tokenURI", <<agentId>>)>>
                  /\ result' = Err("call failed")
                  /\ pc' = "idle"
             ELSE IF ResolveKind(agents[agentId].uri) = "data"
             THEN /\ calls' = <<Event("read", "tokenURI", <<agentId>>)>>
                  /\ result' = RegistrationFromDataURI(agents[agentId].uri)
                  /\ pc' = "idle"
             ELSE IF ResolveKind(agents[agentId].uri) = "fetch"
             THEN /\ calls' = <<Event("read", "tokenURI", <<agentId>>),
                                Event("fetch", "GET", <<FetchURL(agents[agentId].uri)>>)>>
                  /\ result' = NoResult
                  /\ pc' = "fetching"
             ELSE /\ calls' = <<Event("read", "tokenURI", <<agentId>>)>>
                  /\ result' = ErrWith("Unsupported URI scheme", agents[agentId].uri)
                  /\ pc' = "idle"
    /\ locals' = NoLocals
    /\ pending' = NoTx
    /\ UNCHANGED <<connection, nonce, chain>>

\* the fetch of getAgentRegistrationFile settles
FetchSettled ==
    /\ pc = "fetching"
    /\ \E outcome \in FetchOutcomes : result' = AfterFetch(outcome)
    /\ pc' = "idle"
    /\ UNCHANGED <<connection, nonce, chain, op, calls, pending, locals>>

(***************************************************************************)
(* The exported helpers a caller applies to a URI.                         *)
(***************************************************************************)
\* a data URI of the exact prefix whose payload decodes to a text that is no JSON
DataNotJsonURI == DataPrefix \o Base64Encode(<<60, 104, 62>>)

\* the strings a caller passes to parseDataURI
ParseInputs ==
    {createDataURI(MinimalDoc), createDataURI(WrongTypeDoc), DataNotJsonURI,
     DataTextURI, IpfsURI}

\* what parseDataURI gives for each of them
ParseOutputs == [dataURI \in ParseInputs |-> parseDataURI(dataURI)]

\* a call of parseDataURI: synchronous, no collaborator
callParseDataURI ==
    /\ pc = "idle"
    /\ \E dataURI \in ParseInputs :
          /\ op' = [name |-> "parseDataURI", args |-> <<dataURI>>]
          /\ LET r == ParseOutputs[dataURI] IN
             result' = IF r.ok THEN Ok(r.value) ELSE Err(r.error)
    /\ calls' = <<>>
    /\ pending' = NoTx
    /\ locals' = NoLocals
    /\ pc' = "idle"
    /\ UNCHANGED <<connection, nonce, chain>>

(***************************************************************************)
(* ReputationRegistryClient.getFeedbackFile (src/src/utils/index.ts) and   *)
(* the exported schemas applied to a raw document.                         *)
(***************************************************************************)
\* how getFeedbackFile resolves a URI: "fetch" or "unsupported"
FeedbackResolveKind(feedbackURI) ==
    IF StartsWith(feedbackURI, IpfsScheme) THEN "fetch"
    ELSE IF StartsWith(feedbackURI, HttpScheme) \/ StartsWith(feedbackURI, HttpsScheme)
    THEN "fetch"
    ELSE "unsupported"

\* the URL getFeedbackFile fetches
FeedbackFetchURL(feedbackURI) ==
    IF StartsWith(feedbackURI, IpfsScheme)
    THEN IpfsGateway \o Replace(feedbackURI, IpfsScheme, <<>>)
    ELSE feedbackURI

\* JSON.parse(content) then FeedbackFileSchema.parse(data)
ParseFeedbackFile(content) ==
    IF ~JsonWellFormed(content) THEN Err("SyntaxError")
    ELSE LET parsed == FeedbackFileSchemaParse(JsonParse(content)) IN
         IF parsed.ok THEN Ok(parsed.value) ELSE ErrWith("ZodError", parsed.issues)

FeedbackFetchOutcomes == {[ok |-> TRUE, text |-> c] : c \in FeedbackContents}
                         \cup {[ok |-> FALSE, text |-> <<>>]}

\* getFeedbackFile up to its first await: an ipfs or http(s) URI is fetched,
\* any other fails
getFeedbackFile ==
    /\ pc = "idle"
    /\ \E feedbackURI \in FeedbackURIs :
          /\ op' = [name |-> "getFeedbackFile", args |-> <<feedbackURI>>]
          /\ IF FeedbackResolveKind(feedbackURI) = "fetch"
             THEN /\ calls' = <<Event("fetch", "GET", <<FeedbackFetchURL(feedbackURI)>>)>>
                  /\ result' = NoResult
                  /\ pc' = "fetchingFeedback"
             ELSE /\ calls' = <<>>
                  /\ result' = ErrWith("Unsupported URI scheme", feedbackURI)
                  /\ pc' = "idle"
    /\ locals' = NoLocals
    /\ pending' = NoTx
    /\ UNCHANGED <<connection, nonce, chain>>

\* the fetch of getFeedbackFile settles; content is the text received
FeedbackFetchSettled ==
    /\ pc = "fetchingFeedback"
    /\ \E outcome \in FeedbackFetchOutcomes :
          /\ locals' = [content |-> outcome]
          /\ result' = IF outcome.ok THEN ParseFeedbackFile(outcome.text)
                       ELSE Err("fetch failed")
    /\ pc' = "idle"
    /\ UNCHANGED <<connection, nonce, chain, op, calls, pending>>

\* a call of AgentRegistrationFileSchema.parse: synchronous, no collaborator
callAgentRegistrationFileSchema ==
    /\ pc = "idle"
    /\ \E data \in RawRegistrations :
          /\ op' = [name |-> "AgentRegistrationFileSchema.parse", args |-> <<data>>]
          /\ LET r == AgentRegistrationFileSchemaParse(data) IN
             result' = IF r.ok THEN Ok(r.value) ELSE ErrWith("ZodError", r.issues)
    /\ calls' = <<>>
    /\ pending' = NoTx
    /\ locals' = NoLocals
    /\ pc' = "idle"
    /\ UNCHANGED <<connection, nonce, chain>>

\* a call of FeedbackFileSchema.parse
callFeedbackFileSchema ==
    /\ pc = "idle"
    /\ \E data \in RawFeedbacks :
          /\ op' = [name |-> "FeedbackFileSchema.parse", args |-> <<data>>]
          /\ LET r == FeedbackFileSchemaParse(data) IN
             result' = IF r.ok THEN Ok(r.value) ELSE ErrWith("ZodError", r.issues)
    /\ calls' = <<>>
    /\ pending' = NoTx
    /\ locals' = NoLocals
    /\ pc' = "idle"
    /\ UNCHANGED <<connection, nonce, chain>>

(***************************************************************************)
(* ReputationRegistryClient and ValidationRegistryClient: reads.           *)
(***************************************************************************)
ClientLists == {<<>>, <<SignerAddress>>, <<OtherAddress, SignerAddress>>}
OptionalTags == {Undefined, TagQ}

SybilMessage == "clientAddresses must not be empty (Sybil attack prevention)"

\* getSummary without its check of clientAddresses
SummaryErrorUnchecked(clientAddresses) == ""

\* getSummary's check of its input: the message of the error thrown, "" if none
SummaryError(clientAddresses) ==
    IF Len(clientAddresses) = 0 THEN SybilMessage ELSE ""

getSummary ==
    \E agentId \in {1}, clientAddresses \in ClientLists, tag1 \in OptionalTags,
       tag2 \in {Undefined} :
        ReadOp("getSummary", <<agentId, clientAddresses, tag1, tag2>>,
               SummaryError(clientAddresses),
               "getSummary",
               <<agentId, clientAddresses, OrElse(tag1, <<>>), OrElse(tag2, <<>>)>>,
               TRUE,
               ContractGetSummary(agentId, clientAddresses, OrElse(tag1, <<>>),
                                  OrElse(tag2, <<>>)))

\* the optional clientAddresses argument: absent, or a list
OptionalClientLists ==
    {[defined |-> FALSE, items |-> <<>>]}
    \cup {[defined |-> TRUE, items |-> l] : l \in {<<>>, <<SignerAddress>>}}

\* record i of readAllFeedback's result, from position i of every array
FeedbackRecordAt(agentId, r, i) ==
    [agentId |-> agentId, clientAddress |-> r.clients[i],
     feedbackIndex |-> r.feedbackIndexes[i], value |-> r.values[i],
     valueDecimals |-> r.valueDecimals[i], tag1 |-> r.tag1s[i],
     tag2 |-> r.tag2s[i], isRevoked |-> r.revokedStatuses[i]]

FeedbackRecords(agentId, r) ==
    [i \in 1..Len(r.clients) |-> FeedbackRecordAt(agentId, r, i)]

\* an optional boolean argument: absent, or passed with a value
OptionalFlags ==
    {[defined |-> FALSE, value |-> FALSE]}
    \cup {[defined |-> TRUE, value |-> b] : b \in BOOLEAN}

\* the arguments a caller passes to readAllFeedback after agentId
ReadAllFeedbackInputs ==
    {[clientAddresses |-> c, tag1 |-> Undefined, tag2 |-> Undefined,
      includeRevoked |-> [defined |-> FALSE, value |-> FALSE]] :
        c \in OptionalClientLists}
    \cup {[clientAddresses |-> c, tag1 |-> TagQ, tag2 |-> Undefined,
           includeRevoked |-> f] :
             c \in OptionalClientLists \ {[defined |-> TRUE, items |-> <<>>]},
             f \in OptionalFlags \ {[defined |-> FALSE, value |-> FALSE]}}

\* the arguments with includeRevoked defaulting to true
ReadAllFeedbackArgsRevokedByDefault(agentId, in) ==
    <<agentId,
      IF in.clientAddresses.defined THEN in.clientAddresses.items ELSE <<>>,
      OrElse(in.tag1, <<>>), OrElse(in.tag2, <<>>),
      IF in.includeRevoked.defined THEN in.includeRevoked.value ELSE TRUE>>

\* agentId, clientAddresses || [], tag1 || '', tag2 || '', includeRevoked
\* (false by default)
ReadAllFeedbackArgs(agentId, in) ==
    <<agentId,
      IF in.clientAddresses.defined THEN in.clientAddresses.items ELSE <<>>,
      OrElse(in.tag1, <<>>), OrElse(in.tag2, <<>>),
      IF in.includeRevoked.defined THEN in.includeRevoked.value ELSE FALSE>>

readAllFeedback ==
    \E agentId \in {1}, in \in ReadAllFeedbackInputs :
        LET sent == ReadAllFeedbackArgs(agentId, in) IN
        ReadOp("readAllFeedback",
               <<agentId, in.clientAddresses, in.tag1, in.tag2, in.includeRevoked>>,
               "", "readAllFeedback", sent, TRUE,
               FeedbackRecords(agentId,
                   ContractReadAllFeedback(sent[1], sent[2], sent[3], sent[4], sent[5])))

\* the ValidationStatus built from the contract's answer
ValidationStatusOf(r) ==
    [validatorAddress |-> r.validatorAddress, agentId |-> r.agentId,
     response |-> r.response, responseHash |-> r.responseHash, tag |-> r.tag,
     lastUpdate |-> r.lastUpdate]

getValidationStatus ==
    \E requestHash \in RequestHashes :
        ReadOp("getValidationStatus", <<requestHash>>, "", "getValidationStatus",
               <<requestHash>>, requestHash \in DOMAIN validations,
               ValidationStatusOf(validations[requestHash]))

(***************************************************************************)
(* ClawpassClient: the aggregator.                                         *)
(***************************************************************************)
Leg(st, val) == [st |-> st, val |-> val]
LegSettled(l) == l.st \in {"ok", "failed"}

\* getAgentInfo that starts its first operation only, the next once it settled
getAgentInfoStartFirstOnly(agentId) ==
    /\ calls' = <<Event("read", "tokenURI", <<agentId>>)>>
    /\ locals' = [reg |-> Leg("pending", <<>>), owner |-> Leg("pending", <<>>),
                  wallet |-> Leg("pending", <<>>)]

\* getAgentInfo up to `await Promise.all([...])`: the three operations are
\* called one after the other, each runs to its first await (its contract
\* read is issued), and only then does the call wait
getAgentInfoStart(agentId) ==
    /\ calls' = <<Event("read", "tokenURI", <<agentId>>),
                  Event("read", "ownerOf", <<agentId>>),
                  Event("read", "getAgentWallet", <<agentId>>)>>
    /\ locals' = [reg |-> Leg("pending", <<>>), owner |-> Leg("pending", <<>>),
                  wallet |-> Leg("pending", <<>>)]

getAgentInfo ==
    /\ pc = "idle"
    /\ \E agentId \in AgentIds :
          /\ op' = [name |-> "getAgentInfo", args |-> <<agentId>>]
          /\ getAgentInfoStart(agentId)
    /\ pc' = "info"
    /\ result' = NoResult
    /\ pending' = NoTx
    /\ UNCHANGED <<connection, nonce, chain>>

\* the view getAgentInfo returns
AgentInfoView(agentId, l) ==
    [agentId |-> agentId, owner |-> l.owner.val, wallet |-> l.wallet.val,
     registration |-> l.reg.val]

\* Promise.allSettled in the place of Promise.all: the view is built once the
\* three have settled, whatever their outcomes
InfoResultAllSettled(l, k) ==
    IF LegSettled(l.reg) /\ LegSettled(l.owner) /\ LegSettled(l.wallet)
    THEN Ok(AgentInfoView(op.args[1], l))
    ELSE NoResult

\* Promise.all after leg k changed: it rejects with the first rejection,
\* fulfils when all three have fulfilled, and is settled once
InfoResult(l, k) ==
    IF result.status # "none" THEN result
    ELSE IF l[k].st = "failed" THEN ErrWith(l[k].val.error, l[k].val.value)
    ELSE IF l.reg.st = "ok" /\ l.owner.st = "ok" /\ l.wallet.st = "ok"
    THEN Ok(AgentInfoView(op.args[1], l))
    ELSE NoResult

InfoAdvance(l, k) ==
    /\ locals' = l
    /\ result' = InfoResult(l, k)
    /\ pc' = IF LegSettled(l.reg) /\ LegSettled(l.owner) /\ LegSettled(l.wallet)
             THEN "idle" ELSE "info"

\* the tokenURI read of the registration leg settles; the leg goes on as
\* getAgentRegistrationFile does
InfoURISettled ==
    /\ pc = "info"
    /\ locals.reg.st = "pending"
    /\ \E netOk \in CallOutcomes :
          LET a == op.args[1]
              uri == agents[a].uri
          IN IF ~(netOk /\ Registered(a))
             THEN /\ calls' = calls
                  /\ InfoAdvance([locals EXCEPT !.reg = Leg("failed", Err("call failed"))], "reg")
             ELSE IF ResolveKind(uri) = "data"
             THEN /\ calls' = calls
                  /\ LET r == RegistrationFromDataURI(uri) IN
                     InfoAdvance(
                        [locals EXCEPT !.reg =
                            IF r.status = "ok" THEN Leg("ok", r.value)
                            ELSE Leg("failed", r)], "reg")
             ELSE IF ResolveKind(uri) = "fetch"
             THEN /\ calls' = Append(calls, Event("fetch", "GET", <<FetchURL(uri)>>))
                  /\ InfoAdvance([locals EXCEPT !.reg = Leg("fetching", <<>>)], "reg")
             ELSE /\ calls' = calls
                  /\ InfoAdvance(
                        [locals EXCEPT !.reg =
                            Leg("failed", ErrWith("Unsupported URI scheme", uri))], "reg")
    /\ UNCHANGED <<connection, nonce, chain, op, pending>>

\* the fetch of the registration leg settles
InfoFetchSettled ==
    /\ pc = "info"
    /\ locals.reg.st = "fetching"
    /\ \E outcome \in FetchOutcomes :
          LET r == AfterFetch(outcome) IN
          InfoAdvance(
             [locals EXCEPT !.reg =
                 IF r.status = "ok" THEN Leg("ok", r.value) ELSE Leg("failed", r)],
             "reg")
    /\ UNCHANGED <<connection, nonce, chain, op, calls, pending>>

InfoOwnerSettled ==
    /\ pc = "info"
    /\ locals.owner.st = "pending"
    /\ \E netOk \in CallOutcomes :
          InfoAdvance(
             [locals EXCEPT !.owner =
                 IF netOk /\ Registered(op.args[1])
                 THEN Leg("ok", agents[op.args[1]].owner)
                 ELSE Leg("failed", Err("call failed"))], "owner")
    /\ UNCHANGED <<connection, nonce, chain, op, calls, pending>>

InfoWalletSettled ==
    /\ pc = "info"
    /\ locals.wallet.st = "pending"
    /\ \E netOk \in CallOutcomes :
          InfoAdvance(
             [locals EXCEPT !.wallet =
                 IF netOk /\ Registered(op.args[1])
                 THEN Leg("ok", agents[op.args[1]].wallet)
                 ELSE Leg("failed", Err("call failed"))], "wallet")
    /\ UNCHANGED <<connection, nonce, chain, op, calls, pending>>

\* getAgentReputation up to its first await: getSummary throws before any
\* read when trustedClients is empty, and issues its read otherwise
getAgentReputation ==
    /\ pc = "idle"
    /\ \E agentId \in {1}, trustedClients \in ClientLists, tag1 \in OptionalTags,
          tag2 \in {Undefined} :
          /\ op' = [name |-> "getAgentReputation",
                    args |-> <<agentId, trustedClients, tag1, tag2>>]
          /\ IF SummaryError(trustedClients) # ""
             THEN /\ result' = Err(SummaryError(trustedClients))
                  /\ calls' = <<>>
                  /\ pc' = "idle"
             ELSE /\ result' = NoResult
                  /\ calls' = <<Event("read", "getSummary",
                                      <<agentId, trustedClients, OrElse(tag1, <<>>),
                                        OrElse(tag2, <<>>)>>)>>
                  /\ pc' = "repSummary"
    /\ locals' = NoLocals
    /\ pending' = NoTx
    /\ UNCHANGED <<connection, nonce, chain>>

\* getAgentReputation's readAllFeedback without the client filter
AllFeedbackArgsUnfiltered(agentId, trustedClients, tag1, tag2) ==
    <<agentId, <<>>, OrElse(tag1, <<>>), OrElse(tag2, <<>>), FALSE>>

\* what getAgentReputation's readAllFeedback(agentId, trustedClients, tag1,
\* tag2) passes to the contract; includeRevoked takes its default
AllFeedbackArgs(agentId, trustedClients, tag1, tag2) ==
    <<agentId, trustedClients, OrElse(tag1, <<>>), OrElse(tag2, <<>>), FALSE>>

\* getSummary settles; on success readAllFeedback is called with the same
\* arguments and issues its read
RepSummarySettled ==
    /\ pc = "repSummary"
    /\ \E netOk \in CallOutcomes :
          IF netOk
          THEN /\ locals' =
                     [summary |->
                         ContractGetSummary(op.args[1], op.args[2],
                                            OrElse(op.args[3], <<>>),
                                            OrElse(op.args[4], <<>>))]
               /\ calls' = Append(calls,
                              Event("read", "readAllFeedback",
                                    AllFeedbackArgs(op.args[1], op.args[2], op.args[3],
                                                    op.args[4])))
               /\ result' = result
               /\ pc' = "repFeedback"
          ELSE /\ locals' = locals
               /\ calls' = calls
               /\ result' = Err("call failed")
               /\ pc' = "idle"
    /\ UNCHANGED <<connection, nonce, chain, op, pending>>

\* readAllFeedback settles and getAgentReputation returns
RepFeedbackSettled ==
    /\ pc = "repFeedback"
    /\ \E netOk \in CallOutcomes :
          result' =
             IF netOk
             THEN Ok([summary |-> locals.summary,
                      feedback |->
                         FeedbackRecords(op.args[1],
                            ContractReadAllFeedback(op.args[1], op.args[2],
                                OrElse(op.args[3], <<>>), OrElse(op.args[4], <<>>),
                                FALSE))])
             ELSE Err("call failed")
    /\ pc' = "idle"
    /\ UNCHANGED <<connection, nonce, chain, op, calls, pending, locals>>

(***************************************************************************)
(* ClawpassClient.verifyRegistryLinks (src/src/ClawpassClient.ts).         *)
(***************************************************************************)
UpperLetters ==
    <<"A","B","C","D","E","F","G","H","I","J","K","L","M",
      "N","O","P","Q","R","S","T","U","V","W","X","Y","Z">>
LowerLetters ==
    <<"a","b","c","d","e","f","g","h","i","j","k","l","m",
      "n","o","p","q","r","s","t","u","v","w","x","y","z">>

\* String.prototype.toLowerCase
ToLowerCase(s) ==
    [i \in 1..Len(s) |->
        IF \E j \in 1..26 : UpperLetters[j] = s[i]
        THEN LowerLetters[CHOOSE j \in 1..26 : UpperLetters[j] = s[i]]
        ELSE s[i]]

\* config.identityRegistryAddress, which this.identity['contract'].target holds
IdentityRegistryAddress == <<"0", "x", "A", "b", "9", "E">>

\* what getIdentityRegistry() of a registry may answer: the configured
\* address in its checksum, lower or upper case, or another address
LinkAnswers ==
    {IdentityRegistryAddress, <<"0", "x", "a", "b", "9", "e">>,
     <<"0", "x", "A", "B", "9", "E">>, <<"0", "x", "A", "b", "9", "F">>}

\* the comparison with === and no case folding
RegistryLinksMatchExactly(identityAddress, reputationIdentity, validationIdentity) ==
    /\ reputationIdentity = identityAddress
    /\ validationIdentity = identityAddress

\* the value verifyRegistryLinks returns
RegistryLinksMatch(identityAddress, reputationIdentity, validationIdentity) ==
    /\ ToLowerCase(reputationIdentity) = ToLowerCase(identityAddress)
    /\ ToLowerCase(validationIdentity) = ToLowerCase(identityAddress)

\* verifyRegistryLinks up to its first await
verifyRegistryLinks ==
    /\ pc = "idle"
    /\ op' = [name |-> "verifyRegistryLinks", args |-> <<>>]
    /\ calls' = <<Event("read", "reputation.getIdentityRegistry", <<>>)>>
    /\ locals' = [identityAddress |-> IdentityRegistryAddress]
    /\ result' = NoResult
    /\ pending' = NoTx
    /\ pc' = "linkReputation"
    /\ UNCHANGED <<connection, nonce, chain>>

\* this.reputation.getIdentityRegistry() settles; on success the validation
\* registry is asked
LinkReputationSettled ==
    /\ pc = "linkReputation"
    /\ \E netOk \in CallOutcomes :
          IF netOk
          THEN /\ \E answer \in LinkAnswers :
                     locals' = [identityAddress |-> locals.identityAddress,
                                reputationIdentity |-> answer]
               /\ calls' = Append(calls,
                              Event("read", "validation.getIdentityRegistry", <<>>))
               /\ result' = result
               /\ pc' = "linkValidation"
          ELSE /\ locals' = locals
               /\ calls' = calls
               /\ result' = Err("call failed")
               /\ pc' = "idle"
    /\ UNCHANGED <<connection, nonce, chain, op, pending>>

\* this.validation.getIdentityRegistry() settles and verifyRegistryLinks returns
LinkValidationSettled ==
    /\ pc = "linkValidation"
    /\ \E netOk \in CallOutcomes :
          IF netOk
          THEN \E answer \in LinkAnswers :
                  /\ locals' = [identityAddress |-> locals.identityAddress,
                                reputationIdentity |-> locals.reputationIdentity,
                                validationIdentity |-> answer]
                  /\ result' = Ok(RegistryLinksMatch(locals.identityAddress,
                                      locals.reputationIdentity, answer))
          ELSE /\ locals' = locals
               /\ result' = Err("call failed")
    /\ pc' = "idle"
    /\ UNCHANGED <<connection, nonce, chain, op, calls, pending>>

(***************************************************************************)
(* The remaining pass-through reads of the three accessors, and            *)
(* ClawpassClient.getAgentValidationSummary.                               *)
(***************************************************************************)
\* what the identity registry may hold under a metadata key (its metadata
\* store is not part of `agents`): nothing, or the bytes once set
MetadataAnswers == {"0x", "0x01"}

getMetadata ==
    \E agentId \in {1}, stored \in MetadataAnswers :
        ReadOp("getMetadata", <<agentId, "k">>, "", "getMetadata", <<agentId, "k">>,
               Registered(agentId), stored)

\* ReputationRegistry.getClients: the distinct clients in order of first feedback
ContractGetClients(a) ==
    LET first == SelectSeq([j \in 1..Len(feedbacks) |-> j],
                    LAMBDA j :
                       /\ feedbacks[j].agentId = a
                       /\ \A k \in 1..(j - 1) :
                             \/ feedbacks[k].agentId # a
                             \/ feedbacks[k].clientAddress # feedbacks[j].clientAddress)
    IN [i \in 1..Len(first) |-> feedbacks[first[i]].clientAddress]

getClients ==
    \E agentId \in {1} :
        ReadOp("getClients", <<agentId>>, "", "getClients", <<agentId>>,
               TRUE, ContractGetClients(agentId))

getLastIndex ==
    \E agentId \in {1}, clientAddress \in {SignerAddress} :
        ReadOp("getLastIndex", <<agentId, clientAddress>>, "", "getLastIndex",
               <<agentId, clientAddress>>, TRUE, LastIndex(agentId, clientAddress))

\* the FeedbackRecord readFeedback builds from its arguments and the answer
ReadFeedbackRecord(agentId, clientAddress, feedbackIndex, r) ==
    [agentId |-> agentId, clientAddress |-> clientAddress,
     feedbackIndex |-> feedbackIndex, value |-> r.value,
     valueDecimals |-> r.valueDecimals, tag1 |-> r.tag1, tag2 |-> r.tag2,
     isRevoked |-> r.isRevoked]

readFeedback ==
    \E agentId \in {1}, clientAddress \in {SignerAddress}, feedbackIndex \in {1} :
        LET j == FeedbackAt(agentId, feedbackIndex) IN
        ReadOp("readFeedback", <<agentId, clientAddress, feedbackIndex>>, "",
               "readFeedback", <<agentId, clientAddress, feedbackIndex>>,
               j # 0,
               ReadFeedbackRecord(agentId, clientAddress, feedbackIndex,
                                  feedbacks[IF j = 0 THEN 1 ELSE j]))

RECURSIVE HashList(_)
HashList(hs) ==
    IF hs = {} THEN <<>>
    ELSE LET h == CHOOSE x \in hs : TRUE IN <<h>> \o HashList(hs \ {h})

\* ValidationRegistry.getAgentValidations
ContractGetAgentValidations(a) ==
    HashList({h \in DOMAIN validations : validations[h].agentId = a})

\* ValidationRegistry.getValidatorRequests
ContractGetValidatorRequests(v) ==
    HashList({h \in DOMAIN validations : validations[h].validatorAddress = v})

\* ValidationRegistry.getSummary: the responded requests of the agent that
\* pass the filters, and the mean of their responses
ContractValidationSummary(a, validators, tag) ==
    LET hs == {h \in DOMAIN validations :
                  /\ validations[h].agentId = a
                  /\ validations[h].lastUpdate # 0
                  /\ (Len(validators) = 0
                      \/ \E i \in 1..Len(validators) :
                            validators[i] = validations[h].validatorAddress)
                  /\ (tag = <<>> \/ validations[h].tag = tag)}
        list == HashList(hs)
        RECURSIVE Total(_)
        Total(l) == IF Len(l) = 0 THEN 0
                    ELSE validations[l[1]].response + Total(Tail(l))
    IN [count |-> Len(list),
        averageResponse |-> IF Len(list) = 0 THEN 0 ELSE Total(list) \div Len(list)]

getAgentValidations ==
    \E agentId \in {1} :
        ReadOp("getAgentValidations", <<agentId>>, "", "getAgentValidations",
               <<agentId>>, TRUE, ContractGetAgentValidations(agentId))

getValidatorRequests ==
    \E validatorAddress \in {OtherAddress} :
        ReadOp("getValidatorRequests", <<validatorAddress>>, "",
               "getValidatorRequests", <<validatorAddress>>, TRUE,
               ContractGetValidatorRequests(validatorAddress))

\* getIdentityRegistry of the reputation and of the validation accessor
getIdentityRegistry ==
    \E method \in {"reputation.getIdentityRegistry", "validation.getIdentityRegistry"},
       answer \in LinkAnswers :
        ReadOp(method, <<>>, "", method, <<>>, TRUE, answer)

\* getAgentValidationSummary up to its first await: validation.getSummary is
\* called with the optional arguments defaulted
getAgentValidationSummary ==
    /\ pc = "idle"
    /\ \E agentId \in {1}, validatorAddresses \in OptionalClientLists,
          tag \in OptionalTags :
          /\ op' = [name |-> "getAgentValidationSummary",
                    args |-> <<agentId, validatorAddresses, tag>>]
          /\ calls' = <<Event("read", "validation.getSummary",
                              <<agentId,
                                IF validatorAddresses.defined
                                THEN validatorAddresses.items ELSE <<>>,
                                OrElse(tag, <<>>)>>)>>
    /\ pc' = "valSummary"
    /\ result' = NoResult
    /\ locals' = NoLocals
    /\ pending' = NoTx
    /\ UNCHANGED <<connection, nonce, chain>>

\* validation.getSummary settles: on success getAgentValidations is called
ValSummarySettled ==
    /\ pc = "valSummary"
    /\ \E netOk \in CallOutcomes :
          IF netOk
          THEN /\ locals' =
                     [summary |->
                         ContractValidationSummary(calls[1].args[1], calls[1].args[2],
                                                   calls[1].args[3])]
               /\ calls' = Append(calls, Event("read", "getAgentValidations",
                                               <<op.args[1]>>))
               /\ result' = result
               /\ pc' = "valHashes"
          ELSE /\ locals' = locals
               /\ calls' = calls
               /\ result' = Err("call failed")
               /\ pc' = "idle"
    /\ UNCHANGED <<connection, nonce, chain, op, pending>>

\* getAgentValidations settles and getAgentValidationSummary returns
ValHashesSettled ==
    /\ pc = "valHashes"
    /\ \E netOk \in CallOutcomes :
          result' =
             IF netOk
             THEN LET validationHashes == ContractGetAgentValidations(op.args[1]) IN
                  Ok([summary |-> locals.summary,
                      validationCount |-> Len(validationHashes),
                      validationHashes |-> validationHashes])
             ELSE Err("call failed")
    /\ pc' = "idle"
    /\ UNCHANGED <<connection, nonce, chain, op, calls, pending, locals>>

(***************************************************************************)
(* Numbers.  A JavaScript number is an IEEE-754 double and a bigint is an  *)
(* integer of any size; both exceed the integers of the model checker, so  *)
(* naturals are kept as their base-32768 digits, least significant first,  *)
(* with no leading zero digit (<<>> is 0), and a double is m * 2^e with    *)
(* 2^52 <= m < 2^53, or zero.  Only non-negative numbers are modelled.     *)
(***************************************************************************)
LimbBase == 32768

Rest(a) == IF a = <<>> THEN <<>> ELSE Tail(a)
Low(a) == IF a = <<>> THEN 0 ELSE a[1]

RECURSIVE LFromInt(_)
LFromInt(k) == IF k = 0 THEN <<>> ELSE <<k % LimbBase>> \o LFromInt(k \div LimbBase)

RECURSIVE LNorm(_)
LNorm(a) ==
    IF a = <<>> THEN <<>>
    ELSE IF a[Len(a)] = 0 THEN LNorm(SubSeq(a, 1, Len(a) - 1)) ELSE a

RECURSIVE LAddC(_, _, _)
LAddC(a, b, c) ==
    IF a = <<>> /\ b = <<>> THEN (IF c = 0 THEN <<>> ELSE <<c>>)
    ELSE LET x == Low(a) + Low(b) + c
         IN <<x % LimbBase>> \o LAddC(Rest(a), Rest(b), x \div LimbBase)

LAdd(a, b) == LAddC(a, b, 0)

\* a - b, for a >= b
RECURSIVE LSubB(_, _, _)
LSubB(a, b, borrow) ==
    IF a = <<>> THEN <<>>
    ELSE LET x == a[1] - Low(b) - borrow
         IN <<x % LimbBase>> \o LSubB(Tail(a), Rest(b), IF x < 0 THEN 1 ELSE 0)

LSub(a, b) == LNorm(LSubB(a, b, 0))

\* -1, 0 or 1 as a is below, equal to or above b
RECURSIVE LCmpFrom(_, _, _)
LCmpFrom(a, b, i) ==
    IF i = 0 THEN 0
    ELSE IF a[i] < b[i] THEN -1
    ELSE IF a[i] > b[i] THEN 1
    ELSE LCmpFrom(a, b, i - 1)

LCmp(a, b) ==
    IF Len(a) < Len(b) THEN -1
    ELSE IF Len(a) > Len(b) THEN 1
    ELSE LCmpFrom(a, b, Len(a))

\* a * k + c, for k and c below LimbBase
RECURSIVE LMulSmall(_, _, _)
LMulSmall(a, k, c) ==
    IF a = <<>> THEN (IF c = 0 THEN <<>> ELSE <<c>>)
    ELSE LET x == a[1] * k + c
         IN <<x % LimbBase>> \o LMulSmall(Tail(a), k, x \div LimbBase)

LShiftLimb(a) == IF a = <<>> THEN <<>> ELSE <<0>> \o a

RECURSIVE LMul(_, _)
LMul(a, b) ==
    IF a = <<>> \/ b = <<>> THEN <<>>
    ELSE LAdd(LMulSmall(a, b[1], 0), LShiftLimb(LMul(a, Tail(b))))

LDouble(a) == LMulSmall(a, 2, 0)

RECURSIVE LShl(_, _)
LShl(a, s) ==
    IF s >= 15 THEN LShiftLimb(LShl(a, s - 15)) ELSE LMulSmall(a, 2 ^ s, 0)

\* floor(a / k), for k below LimbBase: the digits from the top, rem carried down
RECURSIVE LDivSmall(_, _, _)
LDivSmall(a, k, rem) ==
    IF a = <<>> THEN <<>>
    ELSE LET x == rem * LimbBase + a[Len(a)]
         IN Append(LDivSmall(SubSeq(a, 1, Len(a) - 1), k, x % k), x \div k)

RECURSIVE LShr(_, _)
LShr(a, s) ==
    IF s >= 15 THEN LShr(Rest(a), s - 15)
    ELSE LNorm(LDivSmall(a, 2 ^ s, 0))

RECURSIVE BitLen(_)
BitLen(k) == IF k = 0 THEN 0 ELSE 1 + BitLen(k \div 2)

LBitLen(a) == IF a = <<>> THEN 0 ELSE 15 * (Len(a) - 1) + BitLen(a[Len(a)])

RECURSIVE Pow10(_)
Pow10(d) == IF d = 0 THEN <<1>> ELSE LMulSmall(Pow10(d - 1), 10, 0)

Zero == [m |-> <<>>, e |-> 0]

\* 52 more bits of the quotient of a division whose first bit was 1
RECURSIVE Mantissa(_, _, _, _)
Mantissa(m, r, q, k) ==
    IF k = 0 THEN [m |-> m, r |-> r]
    ELSE LET r2 == LDouble(r)
             bit == IF LCmp(r2, q) >= 0 THEN 1 ELSE 0
             m2 == LMulSmall(m, 2, bit)
         IN IF Len(m2) = 0 THEN [m |-> m2, r |-> r2]
            ELSE Mantissa(m2, IF bit = 1 THEN LSub(r2, q) ELSE r2, q, k - 1)

\* the double nearest to p / q, ties to the even mantissa (q > 0)
Nearest(p, q) ==
    IF p = <<>> THEN Zero
    ELSE LET t0 == LBitLen(p) - LBitLen(q)
             p1 == IF t0 < 0 THEN LShl(p, 0 - t0) ELSE p
             q1 == IF t0 > 0 THEN LShl(q, t0) ELSE q
             below == LCmp(p1, q1) < 0
             p2 == IF below THEN LDouble(p1) ELSE p1
             t == IF below THEN t0 - 1 ELSE t0
             d == Mantissa(<<1>>, LSub(p2, q1), q1, 52)
             c == LCmp(LDouble(d.r), q1)
             up == c > 0 \/ (c = 0 /\ d.m[1] % 2 = 1)
             m == IF up THEN LAddC(d.m, <<1>>, 0) ELSE d.m
         IN IF LBitLen(m) = 54
            THEN [m |-> LShr(m, 1), e |-> t - 51]
            ELSE [m |-> m, e |-> t - 52]

Scale(x, k) == IF x.m = <<>> THEN Zero ELSE [m |-> x.m, e |-> x.e + k]

\* the number a decimal literal denotes: digits / 10^scale, e.g. 99.99 is
\* [digits |-> 9999, scale |-> 2]
Literal(v) == Nearest(LFromInt(v.digits), Pow10(v.scale))

\* Number(n) of a bigint, and the number an integer literal denotes
NumberOf(n) == Nearest(n, <<1>>)

\* x * y
Times(x, y) == Scale(Nearest(LMul(x.m, y.m), <<1>>), x.e + y.e)

\* x / y (y # 0)
Over(x, y) == Scale(Nearest(x.m, y.m), x.e - y.e)

\* BigInt(Math.round(x)): floor(x + 1/2), exactly
RoundToBigInt(x) ==
    IF x.m = <<>> THEN <<>>
    ELSE IF x.e >= 0 THEN LShl(x.m, x.e)
    ELSE LShr(LAddC(x.m, LShl(<<1>>, 0 - x.e - 1), 0), 0 - x.e)

\* toFixedPoint and fromFixedPoint (src/src/utils/index.ts)
toFixedPoint(value, decimals) ==
    IF decimals < 0 \/ decimals > 18
    THEN [ok |-> FALSE, error |-> "Decimals must be between 0 and 18", value |-> <<>>]
    ELSE LET multiplier == NumberOf(Pow10(decimals)) IN
         [ok |-> TRUE, error |-> "",
          value |-> RoundToBigInt(Times(value, multiplier))]

fromFixedPoint(value, decimals) ==
    IF decimals < 0 \/ decimals > 18
    THEN [ok |-> FALSE, error |-> "Decimals must be between 0 and 18", value |-> Zero]
    ELSE LET divisor == NumberOf(Pow10(decimals)) IN
         [ok |-> TRUE, error |-> "", value |-> Over(NumberOf(value), divisor)]

(***************************************************************************)
(* The exported pure functions, called on their own: fixed-point           *)
(* conversion and agent-registry strings.                                  *)
(***************************************************************************)
\* a call of a synchronous function: no collaborator, r is what it returns
\* ([ok, value]) or throws ([~ok, error])
PureCall(name, args, r) ==
    /\ pc = "idle"
    /\ op' = [name |-> name, args |-> args]
    /\ result' = IF r.ok THEN Ok(r.value) ELSE Err(r.error)
    /\ calls' = <<>>
    /\ pending' = NoTx
    /\ locals' = NoLocals
    /\ pc' = "idle"
    /\ UNCHANGED <<connection, nonce, chain>>

Dec(digits, scale) == [digits |-> digits, scale |-> scale]

\* (value, decimals) passed to toFixedPoint
ToFixedPointInputs ==
    {<<Dec(45, 1), 1>>, <<Dec(100, 0), 0>>, <<Dec(123, 3), 3>>, <<Dec(9999, 2), 2>>,
     <<Dec(0, 0), 0>>, <<Dec(1, 0), 18>>, <<Dec(3, 1), 18>>, <<Dec(322, 1), 1>>,
     <<Dec(322, 1), 14>>, <<Dec(45, 1), 0>>, <<Dec(1, 0), -1>>, <<Dec(1, 0), 19>>}

ToFixedPointOutputs ==
    [in \in ToFixedPointInputs |-> toFixedPoint(Literal(in[1]), in[2])]

callToFixedPoint ==
    \E in \in ToFixedPointInputs :
        PureCall("toFixedPoint", in, ToFixedPointOutputs[in])

\* (value, decimals) passed to fromFixedPoint, the bigint as a small integer
FromFixedPointInputs ==
    {<<45, 1>>, <<100, 0>>, <<123, 3>>, <<9999, 2>>, <<0, 0>>, <<1, -1>>, <<1, 19>>}

FromFixedPointOutputs ==
    [in \in FromFixedPointInputs |-> fromFixedPoint(LFromInt(in[1]), in[2])]

callFromFixedPoint ==
    \E in \in FromFixedPointInputs :
        PureCall("fromFixedPoint", in, FromFixedPointOutputs[in])

Colon == ":"

\* formatAgentRegistryString (src/src/utils/index.ts)
formatAgentRegistryString(namespace, chainId, identityRegistry) ==
    namespace \o <<Colon>> \o chainId \o <<Colon>> \o identityRegistry

\* parseAgentRegistryString that accepts more than three parts
parseAgentRegistryStringAtLeastThree(registryString) ==
    LET parts == Split(registryString, Colon) IN
    IF Len(parts) < 3
    THEN [ok |-> FALSE, error |-> "Invalid agent registry format"]
    ELSE [ok |-> TRUE,
          value |-> [namespace |-> parts[1], chainId |-> parts[2],
                     identityRegistry |-> parts[3]]]

\* parseAgentRegistryString (src/src/utils/index.ts)
parseAgentRegistryString(registryString) ==
    LET parts == Split(registryString, Colon) IN
    IF Len(parts) # 3
    THEN [ok |-> FALSE, error |-> "Invalid agent registry format"]
    ELSE [ok |-> TRUE,
          value |-> [namespace |-> parts[1], chainId |-> parts[2],
                     identityRegistry |-> parts[3]]]

\* formatAgentRegistry and parseAgentRegistry (src/DEPLOYMENT.md)
formatAgentRegistry(registry) ==
    registry.namespace \o <<Colon>> \o registry.chainId \o <<Colon>>
        \o registry.identityRegistry

parseAgentRegistry(registryString) ==
    LET parts == Split(registryString, Colon) IN
    IF Len(parts) # 3
    THEN [ok |-> FALSE,
          error |-> "Invalid agent registry format. Expected: namespace:chainId:identityRegistry"]
    ELSE [ok |-> TRUE,
          value |-> [namespace |-> parts[1], chainId |-> parts[2],
                     identityRegistry |-> parts[3]]]

\* the components a caller passes: '', plain ones, and one holding a colon
RegistryComponents ==
    {<<>>, <<"e","i","p","1","5","5">>, <<"1">>, <<"0","x","A","b">>, <<"a",":","b">>}

\* the strings a caller passes to the parsers
RegistryStringInputs ==
    {<<"i","n","v","a","l","i","d">>, <<"e","i","p","1","5","5",":","1">>, <<>>,
     <<"e","i","p","1","5","5",":","1",":","0","x","A","b">>,
     <<":",":">>, <<"a",":","b",":","c",":","d">>}

callFormatAgentRegistryString ==
    \E namespace \in RegistryComponents, chainId \in RegistryComponents,
       identityRegistry \in RegistryComponents :
        PureCall("formatAgentRegistryString", <<namespace, chainId, identityRegistry>>,
                 [ok |-> TRUE,
                  value |-> formatAgentRegistryString(namespace, chainId,
                                                      identityRegistry)])

callParseAgentRegistryString ==
    \E registryString \in RegistryStringInputs :
        PureCall("parseAgentRegistryString", <<registryString>>,
                 parseAgentRegistryString(registryString))

callFormatAgentRegistry ==
    \E namespace \in RegistryComponents, chainId \in RegistryComponents,
       identityRegistry \in RegistryComponents :
        LET registry == [namespace |-> namespace, chainId |-> chainId,
                         identityRegistry |-> identityRegistry] IN
        PureCall("formatAgentRegistry", <<registry>>,
                 [ok |-> TRUE, value |-> formatAgentRegistry(registry)])

callParseAgentRegistry ==
    \E registryString \in RegistryStringInputs :
        PureCall("parseAgentRegistry", <<registryString>>,
                 parseAgentRegistry(registryString))

(***************************************************************************)
(* The OpenClaw plugin (src/openclaw-plugin.ts): five tools over one       *)
(* lazily built ClawpassClient.  Here `connection` is the providerOrSigner *)
(* of clientInstance, NoClient while clientInstance is null; op is the     *)
(* tool call, its args the configuration read and the params; calls holds  *)
(* the client operation the tool awaits; result is how execute settled:    *)
(* Ok(content) when it resolved, Err(message) when it rejected.  The       *)
(* client is the plugin's collaborator: each of its operations is one      *)
(* await that resolves with what the registries hold or throws.            *)
(***************************************************************************)
NoClient == [kind |-> "none", provider |-> FALSE]

\* plugins.entries.clawpass.config: absent, or with each setting truthy or
\* not; privateKey is absent, a private key, or a string that is not one
PluginConfigs ==
    {[present |-> FALSE, rpcUrl |-> FALSE, identityRegistryAddress |-> FALSE,
      reputationRegistryAddress |-> FALSE, validationRegistryAddress |-> FALSE,
      privateKey |-> "absent"]}
    \cup {[present |-> TRUE, rpcUrl |-> u, identityRegistryAddress |-> TRUE,
           reputationRegistryAddress |-> TRUE, validationRegistryAddress |-> v,
           privateKey |-> k] :
              u \in BOOLEAN, v \in BOOLEAN, k \in {"absent", "valid", "malformed"}}

InvalidPrivateKey == "invalid private key"

\* createClient: null when a setting is missing; otherwise the provider is
\* built, and a Wallet over it when privateKey is set, whose constructor
\* throws on a string that is not a private key
createClient(cfg) ==
    IF \/ ~cfg.present \/ ~cfg.rpcUrl \/ ~cfg.identityRegistryAddress
       \/ ~cfg.reputationRegistryAddress \/ ~cfg.validationRegistryAddress
    THEN {[kind |-> "null", connection |-> NoClient, error |-> ""]}
    ELSE IF cfg.privateKey = "malformed"
    THEN {[kind |-> "thrown", connection |-> NoClient, error |-> InvalidPrivateKey]}
    ELSE IF cfg.privateKey = "valid"
    THEN {[kind |-> "client", connection |-> [kind |-> "signer", provider |-> TRUE],
           error |-> ""]}
    ELSE {[kind |-> "client", connection |-> [kind |-> "provider", provider |-> p],
           error |-> ""] : p \in BOOLEAN}

\* getClient: clientInstance when it is set, else what createClient gives
getClient(cfg) ==
    IF connection # NoClient
    THEN {[kind |-> "client", connection |-> connection, error |-> ""]}
    ELSE createClient(cfg)

\* a number in params: absent (Number(undefined) is NaN) or a decimal
NoNumber == [defined |-> FALSE, digits |-> 0, scale |-> 0]
NumberParam(digits, scale) == [defined |-> TRUE, digits |-> digits, scale |-> scale]
\* a string in params
NoString == [defined |-> FALSE, value |-> <<>>]
StringParam(s) == [defined |-> TRUE, value |-> s]

NotAnInteger == "The number cannot be converted to a BigInt because it is not an integer"

\* BigInt(Number(x)): throws a RangeError unless the number is an integer
BigIntOfNumber(x) ==
    IF x.defined /\ x.scale = 0
    THEN [ok |-> TRUE, value |-> x.digits, error |-> ""]
    ELSE [ok |-> FALSE, value |-> 0, error |-> NotAnInteger]

\* what the try block of a tool comes to before its await: it returns a text,
\* throws, or calls an operation of the client
ReturnsText(text) == [kind |-> "text", text |-> text, method |-> "", args |-> <<>>]
Throws(message) == [kind |-> "thrown", text |-> message, method |-> "", args |-> <<>>]
CallsClient(method, args) == [kind |-> "call", text |-> "", method |-> method, args |-> args]

\* { content: [{ type: 'text', text }] }, the text as a prefix and what follows it
ToolText(prefix, body) ==
    <<[type |-> "text", text |-> [prefix |-> prefix, body |-> body]]>>

NotConfigured == "Clawpass not configured."
NotConfiguredLong ==
    "Clawpass not configured. Set plugins.entries.clawpass.config (rpcUrl, identityRegistryAddress, reputationRegistryAddress, validationRegistryAddress)."

\* execute of a tool up to its first await: getClient outside the try block,
\* then the try block
Execute(name, cfg, params, notConfigured, tried) ==
    /\ pc = "idle"
    /\ op' = [name |-> name, args |-> <<cfg, params>>]
    /\ \E client \in getClient(cfg) :
          /\ connection' = client.connection
          /\ IF client.kind = "thrown"
             THEN /\ result' = Err(client.error)
                  /\ calls' = <<>>
                  /\ pc' = "idle"
             ELSE IF client.kind = "null"
             THEN /\ result' = Ok(ToolText(notConfigured, ""))
                  /\ calls' = <<>>
                  /\ pc' = "idle"
             ELSE IF tried.kind = "call"
             THEN /\ result' = NoResult
                  /\ calls' = <<Event("client", tried.method, tried.args)>>
                  /\ pc' = "tool"
             ELSE /\ result' = IF tried.kind = "thrown"
                                THEN Ok(ToolText("Error: ", tried.text))
                                ELSE Ok(ToolText(tried.text, ""))
                  /\ calls' = <<>>
                  /\ pc' = "idle"
    /\ pending' = NoTx
    /\ locals' = NoLocals
    /\ UNCHANGED <<nonce, chain>>

AgentIdParams == {NoNumber, NumberParam(1, 0), NumberParam(15, 1)}

\* clawpass_get_agent_info
GetAgentInfoTried(params) ==
    LET agentId == BigIntOfNumber(params.agentId) IN
    IF ~agentId.ok THEN Throws(agentId.error)
    ELSE CallsClient("getAgentInfo", <<agentId.value>>)

clawpass_get_agent_info ==
    \E cfg \in PluginConfigs, params \in [agentId : AgentIdParams] :
        Execute("clawpass_get_agent_info", cfg, params, NotConfiguredLong,
                GetAgentInfoTried(params))

\* clawpass_get_reputation
GetReputationTried(params) ==
    LET agentId == BigIntOfNumber(params.agentId)
        trustedClients == IF params.trustedClients.defined
                          THEN params.trustedClients.items ELSE <<>>
    IN IF ~agentId.ok THEN Throws(agentId.error)
       ELSE IF Len(trustedClients) = 0
       THEN ReturnsText("trustedClients must be a non-empty array (Sybil protection).")
       ELSE CallsClient("getAgentReputation",
                        <<agentId.value, trustedClients,
                          IF params.tag1.defined THEN params.tag1.value ELSE Undefined,
                          IF params.tag2.defined THEN params.tag2.value ELSE Undefined>>)

clawpass_get_reputation ==
    \E cfg \in PluginConfigs,
       params \in [agentId : {NoNumber, NumberParam(1, 0)},
                   trustedClients : OptionalClientLists,
                   tag1 : {NoString, StringParam(TagQ)}, tag2 : {NoString}] :
        Execute("clawpass_get_reputation", cfg, params, NotConfigured,
                GetReputationTried(params))

\* the values and decimal counts given to clawpass_give_feedback
ToolValues == {Dec(45, 1), Dec(5, 0)}
ToolDecimals == {NoNumber, NumberParam(0, 0), NumberParam(1, 0), NumberParam(2, 0),
                 NumberParam(18, 0), NumberParam(19, 0)}

\* Number(params.valueDecimals) || 1, for an absent or a whole valueDecimals
DecimalsOrOne(valueDecimals) ==
    IF ~valueDecimals.defined \/ valueDecimals.digits = 0 THEN 1
    ELSE valueDecimals.digits

ToolFixedPoint ==
    [v \in ToolValues, d \in {1, 2, 18, 19} |-> toFixedPoint(Literal(v), d)]

\* clawpass_give_feedback
GiveFeedbackTried(params) ==
    LET decimals == DecimalsOrOne(params.valueDecimals)
        value == ToolFixedPoint[Dec(params.value.digits, params.value.scale), decimals]
        agentId == BigIntOfNumber(params.agentId)
    IN IF ~value.ok THEN Throws(value.error)
       ELSE IF ~agentId.ok THEN Throws(agentId.error)
       ELSE CallsClient("reputation.giveFeedback",
                        <<[agentId |-> agentId.value, value |-> value.value,
                           valueDecimals |-> decimals,
                           tag1 |-> Undefined, tag2 |-> Undefined,
                           endpoint |-> Undefined]>>)

clawpass_give_feedback ==
    \E cfg \in PluginConfigs,
       params \in [agentId : {NoNumber, NumberParam(1, 0)},
                   value : {NumberParam(v.digits, v.scale) : v \in ToolValues},
                   valueDecimals : ToolDecimals] :
        Execute("clawpass_give_feedback", cfg, params, NotConfigured,
                GiveFeedbackTried(params))

\* calculateHash: keccak256 of the UTF-8 bytes, kept symbolic
calculateHash(content) == <<"keccak256">> \o content

\* clawpass_request_validation
RequestValidationTried(params) ==
    LET requestHash ==
            IF Truthy(params.requestHash) THEN params.requestHash
            ELSE IF Truthy(params.requestData) THEN calculateHash(params.requestData)
            ELSE <<>>
    IN IF requestHash = <<>> THEN ReturnsText("Provide requestHash or requestData.")
       ELSE CallsClient("validation.validationRequest",
                        <<[validatorAddress |-> params.validatorAddress,
                           agentId |-> params.agentId,
                           requestURI |-> params.requestURI,
                           requestHash |-> requestHash]>>)

clawpass_request_validation ==
    \E cfg \in PluginConfigs,
       params \in [validatorAddress : {OtherAddress}, agentId : {NumberParam(1, 0)},
                   requestURI : {IpfsURI}, requestHash : {Undefined, <<>>, HashH},
                   requestData : {Undefined, <<"d">>}] :
        Execute("clawpass_request_validation", cfg, params, NotConfigured,
                RequestValidationTried(params))

\* clawpass_validation_status
clawpass_validation_status ==
    \E cfg \in PluginConfigs, params \in [requestHash : {"0xreq1", "0xnone"}] :
        Execute("clawpass_validation_status", cfg, params, NotConfigured,
                CallsClient("validation.getValidationStatus", <<params.requestHash>>))

\* how the awaited operation of the client may settle: Ok(value) or Err(message)
ClientSettles(call) ==
    {Err("call failed")}
    \cup
    CASE call.method = "getAgentInfo" ->
            IF Registered(call.args[1])
            THEN {Ok([agentId |-> call.args[1], owner |-> agents[call.args[1]].owner,
                      wallet |-> agents[call.args[1]].wallet, registration |-> d]) :
                     d \in {MinimalDoc}}
            ELSE {}
      [] call.method = "getAgentReputation" ->
            {Ok([summary |-> ContractGetSummary(call.args[1], call.args[2],
                                 OrElse(call.args[3], <<>>), OrElse(call.args[4], <<>>)),
                 feedback |-> FeedbackRecords(call.args[1],
                                 ContractReadAllFeedback(call.args[1], call.args[2],
                                     OrElse(call.args[3], <<>>),
                                     OrElse(call.args[4], <<>>), FALSE))])}
      [] call.method = "reputation.giveFeedback" ->
            IF ~HasSigner(connection) THEN {Err("Signer required for giving feedback")}
            ELSE IF FeedbackError(call.args[1]) # "" THEN {Err(FeedbackError(call.args[1]))}
            ELSE {Ok(<<>>), Err("transaction failed")}
      [] call.method = "validation.validationRequest" ->
            IF ~HasSigner(connection) THEN {Err("Signer required for validation request")}
            ELSE {Ok(<<>>), Err("transaction failed")}
      [] OTHER ->
            IF call.args[1] \in DOMAIN validations
            THEN {Ok(ValidationStatusOf(validations[call.args[1]]))}
            ELSE {}

\* the text a tool returns once its operation resolved with value
ResultText(name, agentId, value) ==
    CASE name = "clawpass_get_agent_info" ->
            ToolText("json", [agentId |-> agentId, owner |-> value.owner,
                              wallet |-> value.wallet, name |-> value.registration.name,
                              description |-> value.registration.description,
                              services |-> value.registration.services])
      [] name = "clawpass_get_reputation" ->
            ToolText("json", [summary |-> value.summary,
                              feedbackCount |-> Len(value.feedback)])
      [] name = "clawpass_give_feedback" ->
            ToolText("Feedback submitted successfully.", "")
      [] name = "clawpass_request_validation" ->
            ToolText("Validation requested successfully.", "")
      [] OTHER ->
            ToolText("json", [validatorAddress |-> value.validatorAddress,
                              agentId |-> value.agentId, response |-> value.response,
                              tag |-> value.tag, lastUpdate |-> value.lastUpdate])

\* the awaited operation settles: the try block returns the result text, or
\* the catch block returns the error's message after 'Error: '
ToolSettled ==
    /\ pc = "tool"
    /\ \E settled \in ClientSettles(calls[1]) :
          result' = IF settled.status = "ok"
                    THEN Ok(ResultText(op.name, calls[1].args[1], settled.value))
                    ELSE Ok(ToolText("Error: ", settled.error))
    /\ pc' = "idle"
    /\ UNCHANGED <<connection, nonce, chain, op, calls, pending, locals>>

(***************************************************************************)
(* Other accounts.  The reputation registry is shared: while a call of     *)
(* this client is in flight, another client may give feedback to the agent *)
(* or revoke feedback it gave.                                             *)
(***************************************************************************)
MaxOtherFeedback == 2

OtherGivesFeedback ==
    /\ Len(feedbacks) < MaxOtherFeedback
    /\ \E tag1 \in {<<>>, TagQ} :
          feedbacks' =
             Append(feedbacks,
                    [agentId |-> 1, clientAddress |-> OtherAddress,
                     feedbackIndex |-> LastIndex(1, OtherAddress) + 1,
                     value |-> 45, valueDecimals |-> 1, tag1 |-> tag1, tag2 |-> <<>>,
                     isRevoked |-> FALSE])
    /\ UNCHANGED <<connection, nonce, agents, validations, pc, op, calls, pending,
                   result, locals>>

OtherRevokesFeedback ==
    /\ \E j \in 1..Len(feedbacks) :
          /\ feedbacks[j].clientAddress = OtherAddress
          /\ ~feedbacks[j].isRevoked
          /\ feedbacks' = [feedbacks EXCEPT ![j].isRevoked = TRUE]
    /\ UNCHANGED <<connection, nonce, agents, validations, pc, op, calls, pending,
                   result, locals>>

Next ==
    \/ register
    \/ setAgentURI
    \/ setMetadata
    \/ setAgentWallet
    \/ unsetAgentWallet
    \/ giveFeedback
    \/ revokeFeedback
    \/ appendResponse
    \/ validationRequest
    \/ validationResponse
    \/ TxSubmitted
    \/ TxConfirmed
    \/ getAgentURI
    \/ getOwner
    \/ getAgentWallet
    \/ getAgentRegistrationFile
    \/ FetchSettled
    \/ getSummary
    \/ readAllFeedback
    \/ getValidationStatus
    \/ getAgentInfo
    \/ InfoURISettled
    \/ InfoFetchSettled
    \/ InfoOwnerSettled
    \/ InfoWalletSettled
    \/ getAgentReputation
    \/ RepSummarySettled
    \/ RepFeedbackSettled
    \/ callParseDataURI
    \/ verifyRegistryLinks
    \/ LinkReputationSettled
    \/ LinkValidationSettled
    \/ getMetadata
    \/ getClients
    \/ getLastIndex
    \/ readFeedback
    \/ getAgentValidations
    \/ getValidatorRequests
    \/ getIdentityRegistry
    \/ getAgentValidationSummary
    \/ ValSummarySettled
    \/ ValHashesSettled

Spec == Init /\ [][Next]_vars

\* the documents' side of the package: feedback files and the two schemas,
\* which read nothing of the chain
DocumentNext ==
    \/ getFeedbackFile
    \/ FeedbackFetchSettled
    \/ callAgentRegistrationFileSchema
    \/ callFeedbackFileSchema
    \/ callParseDataURI
    \/ getAgentRegistrationFile
    \/ FetchSettled

DocumentSpec == Init /\ [][DocumentNext]_vars

\* the pure functions of the package, which read nothing of the client
FunctionNext ==
    \/ callToFixedPoint
    \/ callFromFixedPoint
    \/ callFormatAgentRegistryString
    \/ callParseAgentRegistryString
    \/ callFormatAgentRegistry
    \/ callParseAgentRegistry

FunctionSpec == Init /\ [][FunctionNext]_vars

\* getAgentReputation over a registry other accounts write to
SharedNext ==
    \/ getAgentReputation
    \/ RepSummarySettled
    \/ RepFeedbackSettled
    \/ OtherGivesFeedback
    \/ OtherRevokesFeedback

SharedSpec == Init /\ [][SharedNext]_vars

\* the plugin: no client yet, one agent registered and one validation requested
PluginInit ==
    /\ connection = NoClient
    /\ nonce = 0
    /\ agents = <<[uri |-> HttpsURI, owner |-> OtherAddress, wallet |-> OtherAddress]>>
    /\ feedbacks = <<>>
    /\ validations =
          [h \in {"0xreq1"} |->
              [validatorAddress |-> OtherAddress, agentId |-> 1, response |-> 0,
               responseHash |-> ZeroHash, tag |-> <<>>, lastUpdate |-> 0]]
    /\ pc = "idle"
    /\ op = [name |-> "", args |-> <<>>]
    /\ calls = <<>>
    /\ pending = NoTx
    /\ result = NoResult
    /\ locals = NoLocals

PluginNext ==
    \/ clawpass_get_agent_info
    \/ clawpass_get_reputation
    \/ clawpass_give_feedback
    \/ clawpass_request_validation
    \/ clawpass_validation_status
    \/ ToolSettled

PluginSpec == PluginInit /\ [][PluginNext]_vars

(***************************************************************************)
(* Properties.                                                             *)
(***************************************************************************)
WriteOps ==
    {"register", "setAgentURI", "setMetadata", "setAgentWallet", "unsetAgentWallet",
     "giveFeedback", "revokeFeedback", "appendResponse", "validationRequest",
     "validationResponse"}

\* the events of a transaction
TxEvents == {"submit", "wait", "confirmed", "reverted"}

IsRead(e, method) == e.kind = "read" /\ e.method = method

\* C1: getSummary with an empty clientAddresses fails with the Sybil-prevention
\* error, whatever agentId, tag1 and tag2 are, and issues no contract read;
\* with a non-empty list it issues exactly one getSummary read carrying that
\* list; and no getSummary read of any operation carries an empty client list.
C1_SummaryNeedsClients ==
    /\ op.name = "getSummary" =>
          IF Len(op.args[2]) = 0
          THEN /\ result.status = "error"
               /\ result.error = "clientAddresses must not be empty (Sybil attack prevention)"
               /\ calls = <<>>
          ELSE /\ Len(calls) = 1
               /\ IsRead(calls[1], "getSummary")
               /\ calls[1].args[2] = op.args[2]
    /\ \A i \in 1..Len(calls) :
          IsRead(calls[i], "getSummary") => Len(calls[i].args[2]) > 0

\* getSummary was called with an empty clientAddresses and a tag, and has failed
C1_EmptyListRejected ==
    /\ op.name = "getSummary"
    /\ Len(op.args[2]) = 0
    /\ op.args[3] = TagQ
    /\ result.status = "error"

SignerRequiredMessages ==
    {"Signer required for registration", "Signer required for updating URI",
     "Signer required for setting metadata",
     "Signer required for setting agent wallet",
     "Signer required for unsetting agent wallet",
     "Signer required for giving feedback", "Signer required for revoking feedback",
     "Signer required for appending response",
     "Signer required for validation request",
     "Signer required for validation response"}

\* C2: on a client constructed with a provider, every write operation fails
\* with a 'Signer required' error, and the client never submits a transaction.
C2_ReadOnlyWritesNeedSigner ==
    connection.kind = "provider" =>
        /\ nonce = 0
        /\ pending = NoTx
        /\ \A i \in 1..Len(calls) : calls[i].kind \notin TxEvents
        /\ (op.name \in WriteOps /\ pc = "idle") =>
              /\ result.status = "error"
              /\ result.error \in SignerRequiredMessages

\* a write on a client constructed with a provider has passed the signer
\* check and failed inside the contract call instead
C2_ProviderPassedSignerCheck ==
    /\ connection.kind = "provider"
    /\ op.name \in WriteOps
    /\ result.status = "error"
    /\ result.error = RunnerCannotSend

\* C3: getAgentReputation fails when trustedClients is empty, with no chain
\* read at all; with a non-empty list its reads are a getSummary and then a
\* readAllFeedback that carry the agentId, the list and the tags it was
\* given, and it succeeds only after both.
C3_ReputationNeedsClients ==
    op.name = "getAgentReputation" =>
        IF Len(op.args[2]) = 0
        THEN /\ pc = "idle"
             /\ result.status = "error"
             /\ calls = <<>>
        ELSE /\ Len(calls) \in {1, 2}
             /\ IsRead(calls[1], "getSummary")
             /\ calls[1].args =
                   <<op.args[1], op.args[2], OrElse(op.args[3], <<>>),
                     OrElse(op.args[4], <<>>)>>
             /\ Len(calls) = 2 =>
                   /\ IsRead(calls[2], "readAllFeedback")
                   /\ SubSeq(calls[2].args, 1, 4) = calls[1].args
             /\ result.status = "ok" => Len(calls) = 2

\* getAgentReputation with trusted clients and a tag has returned
C3_ReputationReturned ==
    /\ op.name = "getAgentReputation"
    /\ op.args[3] = TagQ
    /\ result.status = "ok"
    /\ Len(calls) = 2


\* C4: giveFeedback fails and submits no transaction when valueDecimals is
\* below 0 or above 18, so every giveFeedback transaction of this client, and
\* every feedback it has put on the chain, carries a valueDecimals in 0..18.
C4_FeedbackDecimalsChecked ==
    /\ (op.name = "giveFeedback"
        /\ (op.args[1].valueDecimals < 0 \/ op.args[1].valueDecimals > 18)) =>
          /\ pc = "idle"
          /\ result.status = "error"
          /\ calls = <<>>
          /\ pending = NoTx
    /\ \A i \in 1..Len(calls) :
          (calls[i].kind \in TxEvents /\ calls[i].method = "giveFeedback") =>
              calls[i].args[3] \in 0..18
    /\ \A j \in 1..Len(feedbacks) : feedbacks[j].valueDecimals \in 0..18

\* a signer's giveFeedback with valueDecimals 19 was refused by the local check
C4_DecimalsRejected ==
    /\ op.name = "giveFeedback"
    /\ op.args[1].valueDecimals = 19
    /\ result.status = "error"
    /\ result.error = "valueDecimals must be between 0 and 18"

\* C5: validationResponse fails and submits no transaction when response is
\* below 0 or above 100, so every status the registry holds, and every status
\* getValidationStatus returns, has its response in 0..100.
C5_ResponseScoreChecked ==
    /\ (op.name = "validationResponse"
        /\ (op.args[1].response < 0 \/ op.args[1].response > 100)) =>
          /\ pc = "idle"
          /\ result.status = "error"
          /\ calls = <<>>
          /\ pending = NoTx
    /\ \A i \in 1..Len(calls) :
          (calls[i].kind \in TxEvents /\ calls[i].method = "validationResponse") =>
              calls[i].args[2] \in 0..100
    /\ \A h \in DOMAIN validations : validations[h].response \in 0..100
    /\ (op.name = "getValidationStatus" /\ result.status = "ok") =>
          result.value.response \in 0..100

\* a signer's validationResponse with response 101 was refused by the local
\* check, on a registry that holds a request to respond to
C5_ScoreRejected ==
    /\ op.name = "validationResponse"
    /\ op.args[1].response = 101
    /\ result.status = "error"
    /\ result.error = "response must be between 0 and 100"
    /\ validations # <<>>

\* C6: a write has succeeded only when its transaction was submitted, then
\* waited for, then confirmed, in that order and all of the same transaction;
\* while the transaction is unconfirmed the write has not returned, and a
\* failed submission or confirmation ends the write with an error.
C6_SubmitThenConfirm ==
    op.name \in WriteOps =>
        /\ result.status = "ok" =>
              /\ pc = "idle"
              /\ [i \in 1..Len(calls) |-> calls[i].kind] = <<"submit", "wait", "confirmed">>
        /\ \A i \in 1..Len(calls) :
              /\ calls[i].kind \in TxEvents
              /\ calls[i].method = pending.method
              /\ calls[i].args = pending.args
              /\ calls[i].kind = "submit" <=> i = 1
              /\ calls[i].kind = "wait" <=> i = 2
        /\ pc \in {"submitting", "confirming"} => result.status = "none"
        /\ (pc = "idle" /\ Len(calls) > 0 /\ calls[Len(calls)].kind # "confirmed") =>
              result.status = "error"

\* a write has returned successfully
C6_WriteConfirmed ==
    /\ op.name = "setAgentURI"
    /\ result.status = "ok"
    /\ Len(calls) = 3

\* C7: getAgentInfo starts its three chain reads (the URI of the registration
\* pipeline, the owner, the wallet) before the result of any of them is
\* awaited: from its first step on the three reads are issued, in a row and
\* for the agentId asked, and no leg has settled with fewer of them issued.
C7_InfoReadsConcurrent ==
    op.name = "getAgentInfo" =>
        /\ Len(calls) >= 3
        /\ calls[1] = Event("read", "tokenURI", <<op.args[1]>>)
        /\ calls[2] = Event("read", "ownerOf", <<op.args[1]>>)
        /\ calls[3] = Event("read", "getAgentWallet", <<op.args[1]>>)
        /\ \A i \in 4..Len(calls) : calls[i].kind = "fetch"

\* the three reads of a getAgentInfo are in flight at the same time
C7_ThreeInFlight ==
    /\ op.name = "getAgentInfo"
    /\ pc = "info"
    /\ locals.reg.st = "pending"
    /\ locals.owner.st = "pending"
    /\ locals.wallet.st = "pending"
    /\ Len(calls) = 3

\* C8: getAgentInfo is all-or-nothing: once one of its three sub-reads has
\* failed the call has failed, and what it returns is a view only when all
\* three succeeded, the view then holding the agentId asked for and the
\* three results.
C8_InfoAllOrNothing ==
    op.name = "getAgentInfo" =>
        /\ (\E k \in {"reg", "owner", "wallet"} : locals[k].st = "failed") =>
              result.status = "error"
        /\ result.status = "ok" =>
              /\ \A k \in {"reg", "owner", "wallet"} : locals[k].st = "ok"
              /\ result.value =
                    [agentId |-> op.args[1], owner |-> locals.owner.val,
                     wallet |-> locals.wallet.val, registration |-> locals.reg.val]
              /\ result.value.owner = agents[op.args[1]].owner
              /\ result.value.wallet = agents[op.args[1]].wallet
        /\ (pc = "idle" /\ \A k \in {"reg", "owner", "wallet"} : locals[k].st = "ok") =>
              result.status = "ok"

\* a getAgentInfo whose owner and wallet reads succeeded has failed on the
\* registration document
C8_InfoFailedOnOneLeg ==
    /\ op.name = "getAgentInfo"
    /\ pc = "idle"
    /\ locals.owner.st = "ok"
    /\ locals.wallet.st = "ok"
    /\ locals.reg.st = "failed"
    /\ result.status = "error"

\* C9: register called with createDataURI(d), d a valid minimal registration
\* document, returns the id of an agent whose URI is that data URI; and
\* getAgentRegistrationFile of an agent with that URI returns a document
\* equal to d after its one chain read, with no network call (unless the
\* chain read itself failed).
C9_DataURIRoundTrip ==
    /\ (op.name = "register" /\ result.status = "ok"
        /\ op.args[1] = createDataURI(MinimalDoc)) =>
          /\ Registered(result.value)
          /\ agents[result.value].uri = createDataURI(MinimalDoc)
    /\ (/\ op.name = "getAgentRegistrationFile"
        /\ Registered(op.args[1])
        /\ agents[op.args[1]].uri = createDataURI(MinimalDoc)
        /\ result.error # "call failed") =>
              /\ pc = "idle"
              /\ result.status = "ok"
              /\ result.value = MinimalDoc
              /\ calls = <<Event("read", "tokenURI", <<op.args[1]>>)>>

\* getAgentRegistrationFile has returned the minimal document of an agent
\* registered with its data URI
C9_RoundTripDone ==
    /\ op.name = "getAgentRegistrationFile"
    /\ Registered(op.args[1])
    /\ agents[op.args[1]].uri = createDataURI(MinimalDoc)
    /\ agents[op.args[1]].owner = SignerAddress
    /\ result.status = "ok"
    /\ result.value = MinimalDoc

\* C10: a register that reaches the contract submits exactly one transaction,
\* by one of the three register methods: register() when neither an agentURI
\* nor metadata is given, register(agentURI) when only an agentURI is given,
\* register(agentURI, metadata) when both are given (given: a non-empty
\* string, a non-empty list).
C10_RegisterDispatch ==
    (op.name = "register" /\ connection = [kind |-> "signer", provider |-> TRUE]) =>
        LET agentURI == op.args[1]
            metadata == op.args[2]
            hasURI == agentURI # Undefined /\ Len(agentURI) > 0
            hasMetadata == metadata.defined /\ Len(metadata.items) > 0
        IN /\ Cardinality({i \in 1..Len(calls) : calls[i].kind = "submit"}) = 1
           /\ calls[1].kind = "submit"
           /\ calls[1].method \in
                 {"register()", "register(string)", "register(string,(string,bytes)[])"}
           /\ (~hasURI /\ ~hasMetadata) =>
                 calls[1].method = "register()" /\ calls[1].args = <<>>
           /\ (hasURI /\ ~hasMetadata) =>
                 calls[1].method = "register(string)" /\ calls[1].args = <<agentURI>>
           /\ (hasURI /\ hasMetadata) =>
                 /\ calls[1].method = "register(string,(string,bytes)[])"
                 /\ calls[1].args = <<agentURI, metadata.items>>

\* a register with an agentURI and one metadata entry was confirmed
C10_RegisteredWithMetadata ==
    /\ op.name = "register"
    /\ op.args[2].defined
    /\ Len(op.args[2].items) = 1
    /\ pending.method = "register(string,(string,bytes)[])"
    /\ result.status = "ok"

\* C11: a register whose transaction was confirmed returns the agentId of
\* the Registered event of that receipt, and fails with 'Registration event
\* not found' when the receipt holds no Registered event; what it returns is
\* always the agentId of a Registered log of the receipt.
C11_RegisterReturnsEventId ==
    (/\ op.name = "register"
     /\ pc = "idle"
     /\ Len(calls) = 3
     /\ calls[3].kind = "confirmed") =>
        LET registered ==
                {i \in 1..Len(locals.receipt) :
                    locals.receipt[i].fragment = "Registered"}
        IN /\ registered = {} =>
                 /\ result.status = "error"
                 /\ result.error = "Registration event not found"
           /\ registered # {} =>
                 /\ result.status = "ok"
                 /\ \E i \in registered : result.value = locals.receipt[i].agentId
                 /\ Registered(result.value)
                 /\ agents[result.value].owner = SignerAddress

\* a confirmed register found no Registered event in its receipt
C11_EventMissing ==
    /\ op.name = "register"
    /\ Len(calls) = 3
    /\ calls[3].kind = "confirmed"
    /\ \A i \in 1..Len(locals.receipt) : locals.receipt[i].fragment # "Registered"
    /\ result.error = "Registration event not found"

\* C12: getAgentRegistrationFile resolves the URI it read by its scheme: a
\* data: URI is decoded with no network call; ipfs://<cid> is fetched by one
\* GET of https://ipfs.io/ipfs/<cid>; an http:// or https:// URI is fetched by
\* one GET of the URI itself; a URI of any other scheme fails with the
\* unsupported-scheme error that names the URI, with no network call.
C12_ResolveByScheme ==
    (/\ op.name = "getAgentRegistrationFile"
     /\ Registered(op.args[1])
     /\ result.error # "call failed") =>
        LET uri == agents[op.args[1]].uri
            fetches == SelectSeq(calls, LAMBDA e : e.kind = "fetch")
        IN /\ calls[1] = Event("read", "tokenURI", <<op.args[1]>>)
           /\ Len(calls) = 1 + Len(fetches)
           /\ IF StartsWith(uri, <<"d","a","t","a",":">>)
              THEN /\ fetches = <<>>
                   /\ pc = "idle"
                   /\ result.error # "Unsupported URI scheme"
              ELSE IF StartsWith(uri, <<"i","p","f","s",":","/","/">>)
              THEN fetches =
                      <<Event("fetch", "GET",
                              <<<<"h","t","t","p","s",":","/","/","i","p","f","s",".",
                                  "i","o","/","i","p","f","s","/">>
                                \o SubSeq(uri, 8, Len(uri))>>)>>
              ELSE IF \/ StartsWith(uri, <<"h","t","t","p",":","/","/">>)
                      \/ StartsWith(uri, <<"h","t","t","p","s",":","/","/">>)
              THEN fetches = <<Event("fetch", "GET", <<uri>>)>>
              ELSE /\ fetches = <<>>
                   /\ pc = "idle"
                   /\ result.status = "error"
                   /\ result.error = "Unsupported URI scheme"
                   /\ result.value = uri

\* the registration file of an agent whose URI is an ipfs:// URI was fetched
\* from the gateway and returned
C12_IpfsFetched ==
    /\ op.name = "getAgentRegistrationFile"
    /\ Registered(op.args[1])
    /\ agents[op.args[1]].uri = IpfsURI
    /\ Len(calls) = 2
    /\ result.status = "ok"

\* C13: a URI that starts with 'data:' but not with the exact prefix
\* 'data:application/json;base64,' is not decoded: parseDataURI fails on it
\* with the format error, and so does getAgentRegistrationFile when the
\* agent's URI is such a URI.
C13_ExactDataPrefix ==
    /\ (/\ op.name = "parseDataURI"
        /\ StartsWith(op.args[1], <<"d","a","t","a",":">>)
        /\ ~StartsWith(op.args[1], DataPrefix)) =>
          /\ result.status = "error"
          /\ result.error = "Invalid data URI format"
    /\ (/\ op.name = "getAgentRegistrationFile"
        /\ Registered(op.args[1])
        /\ result.error # "call failed"
        /\ StartsWith(agents[op.args[1]].uri, <<"d","a","t","a",":">>)
        /\ ~StartsWith(agents[op.args[1]].uri, DataPrefix)) =>
          result.status = "error"

\* getAgentRegistrationFile has decoded a data:text/plain URI and returned
\* its document
C13_OtherDataURIDecoded ==
    /\ op.name = "getAgentRegistrationFile"
    /\ Registered(op.args[1])
    /\ agents[op.args[1]].uri = DataTextURI
    /\ result.status = "ok"
    /\ result.value = MinimalDoc

\* C14: getFeedbackFile resolves every scheme the registration pipeline
\* resolves: called with a data:application/json;base64 URI of a valid
\* feedback document it returns that document and makes no network call, and
\* called with an ipfs, http or https URI whose fetched content is a valid
\* feedback document it returns that document's known fields
C14_FeedbackResolved ==
    (pc = "idle" /\ op.name = "getFeedbackFile") =>
        /\ op.args[1] = FeedbackDataURI =>
              /\ result.status = "ok"
              /\ calls = <<>>
        /\ (/\ ResolveKind(op.args[1]) = "fetch"
            /\ result.error # "fetch failed"
            /\ JsonWellFormed(locals.content.text)
            /\ FeedbackFileIssues(JsonParse(locals.content.text)) = {}) =>
              /\ result.status = "ok"
              /\ \A k \in FeedbackFileKeys \cap DOMAIN JsonParse(locals.content.text) :
                    result.value[k] = JsonParse(locals.content.text)[k]

\* getFeedbackFile refused a data URI that holds a valid feedback document
C14_DataURIRefused ==
    /\ pc = "idle"
    /\ op.name = "getFeedbackFile"
    /\ op.args[1] = FeedbackDataURI
    /\ parseDataURI(op.args[1]).ok
    /\ FeedbackFileIssues(parseDataURI(op.args[1]).value) = {}
    /\ result.status = "error"
    /\ result.error = "Unsupported URI scheme"

\* C15: feedback-document validation is open to extension: whenever a raw
\* feedback document passes FeedbackFileSchema, handed to the schema directly
\* or fetched by getFeedbackFile, every top-level field of the input, known
\* or unknown, is in the returned document with the value the input had
C15_UnknownFieldsKept ==
    /\ (pc = "idle" /\ op.name = "FeedbackFileSchema.parse" /\ result.status = "ok") =>
          \A k \in DOMAIN op.args[1] :
              /\ k \in DOMAIN result.value
              /\ result.value[k] = op.args[1][k]
    /\ (pc = "idle" /\ op.name = "getFeedbackFile" /\ result.status = "ok") =>
          \A k \in DOMAIN JsonParse(locals.content.text) :
              /\ k \in DOMAIN result.value
              /\ result.value[k] = JsonParse(locals.content.text)[k]

\* a feedback document with an unknown field passed validation and the
\* returned document holds the known fields only
C15_ExtraFieldDropped ==
    /\ pc = "idle"
    /\ op.name = "FeedbackFileSchema.parse"
    /\ "extra" \in DOMAIN op.args[1]
    /\ "proofOfPayment" \in DOMAIN op.args[1]
    /\ result.status = "ok"
    /\ "extra" \notin DOMAIN result.value
    /\ \A k \in DOMAIN op.args[1] \ {"extra"} :
          k \in DOMAIN result.value /\ result.value[k] = op.args[1][k]

\* the path of the issue zod reports for a spoiled field of Spoiled(D)
SpoiledPath(f) ==
    CASE f = "services" -> <<f, 0, "endpoint">>
      [] f = "registrations" -> <<f, 0, "agentRegistry">>
      [] f = "supportedTrust" -> <<f, 0>>
      [] OTHER -> <<f>>

\* the paths of the issues of FeedbackWith(missing, decimals, members)
FeedbackPaths(missing, decimals, members) ==
    {<<k>> : k \in missing}
    \cup (IF decimals \in {Num(19, 0), Num(-1, 0)} THEN {<<"valueDecimals">>} ELSE {})
    \cup (IF "proofOfPayment" \in DOMAIN members
          THEN {<<"proofOfPayment", f>> :
                  f \in {"fromAddress", "toAddress", "chainId", "txHash"}
                        \ DOMAIN members.proofOfPayment}
          ELSE {})

\* C16: validation failure is complete: a registration document violating
\* the schema in the fields of a set D is rejected with an error that names
\* exactly the fields of D, and a feedback document lacking several required
\* fields, with a valueDecimals out of range or an incomplete proofOfPayment,
\* is rejected with an error that names each of these; a document is accepted
\* only when nothing is violated
C16_AllIssuesListed ==
    /\ \A D \in SUBSET SpoiledFields :
          (/\ pc = "idle"
           /\ op.name = "AgentRegistrationFileSchema.parse"
           /\ op.args[1] = Spoiled(D)) =>
              IF D = {} THEN result.status = "ok"
              ELSE /\ result.error = "ZodError"
                   /\ result.value = {SpoiledPath(f) : f \in D}
    /\ \A missing \in SUBSET {"agentId", "createdAt"}, decimals \in DecimalCounts,
          members \in FeedbackMembers :
          (/\ pc = "idle"
           /\ op.name = "FeedbackFileSchema.parse"
           /\ op.args[1] = FeedbackWith(missing, decimals, members)) =>
              IF FeedbackPaths(missing, decimals, members) = {}
              THEN result.status = "ok"
              ELSE /\ result.error = "ZodError"
                   /\ result.value = FeedbackPaths(missing, decimals, members)

\* a registration document violating the schema in six fields was rejected
\* with six issues
C16_SixIssuesListed ==
    /\ pc = "idle"
    /\ op.name = "AgentRegistrationFileSchema.parse"
    /\ op.args[1] = Spoiled(SpoiledFields)
    /\ result.error = "ZodError"
    /\ Cardinality(result.value) = 6
    /\ <<"type">> \in result.value
    /\ <<"registrations", 0, "agentRegistry">> \in result.value

\* whether every entry of a registrations list names a registry of three
\* colon-separated segments, the third 0x followed by 40 hex digits
RegistriesWellFormed(registrations) ==
    \A i \in 1..Len(registrations) :
        LET segments == Split(registrations[i].agentRegistry, ":") IN
        /\ Len(segments) = 3
        /\ Len(segments[3]) = 2 + 40
        /\ segments[3][1] = "0"
        /\ segments[3][2] = "x"
        /\ \A j \in 1..40 : segments[3][2 + j] \in HexDigits

C18_FeedbackAccepted ==
    (pc = "idle" /\ op.name = "FeedbackFileSchema.parse") =>
        LET doc == op.args[1] IN
        /\ result.status = "ok" =>
              /\ {"agentRegistry", "agentId", "clientAddress", "createdAt",
                  "value", "valueDecimals"} \subseteq DOMAIN doc
              /\ doc.valueDecimals.tenths = 0
              /\ doc.valueDecimals.units \in 0..18
        /\ doc = MinimalFeedback => result.status = "ok"
        /\ ("valueDecimals" \in DOMAIN doc
            /\ (doc.valueDecimals.units < 0 \/ doc.valueDecimals.units > 18)) =>
              /\ result.error = "ZodError"
              /\ <<"valueDecimals">> \in result.value

\* a feedback document whose valueDecimals is 1.5 passed validation
C18_FractionAccepted ==
    /\ pc = "idle"
    /\ op.name = "FeedbackFileSchema.parse"
    /\ op.args[1] = FeedbackWith({}, Num(1, 5), NoMembers)
    /\ result.status = "ok"
    /\ result.value.valueDecimals = Num(1, 5)

\* the string sent for an optional string argument: '' when it is absent
SentOrEmpty(given, sent) == IF given = Undefined THEN sent = <<>> ELSE sent = given

\* C19: readAllFeedback never fails locally for want of clients: called with
\* clientAddresses absent or empty it issues one readAllFeedback read with an
\* empty client list (and with the given list otherwise); an absent tag is
\* sent as '', includeRevoked is sent true only when the caller passed true;
\* the result has one record per entry of the contract's arrays, in order,
\* record i built from position i of each array
C19_ReadAllFeedbackUnfiltered ==
    (pc = "idle" /\ op.name = "readAllFeedback") =>
        /\ calls # <<>>
        /\ Len(calls) = 1
        /\ IsRead(calls[1], "readAllFeedback")
        /\ result.status = "error" => result.error = "call failed"
        /\ calls[1].args[1] = op.args[1]
        /\ calls[1].args[2] = (IF op.args[2].defined THEN op.args[2].items ELSE <<>>)
        /\ SentOrEmpty(op.args[3], calls[1].args[3])
        /\ SentOrEmpty(op.args[4], calls[1].args[4])
        /\ calls[1].args[5] = (op.args[5].defined /\ op.args[5].value)
        /\ result.status = "ok" =>
              LET r == ContractReadAllFeedback(calls[1].args[1], calls[1].args[2],
                           calls[1].args[3], calls[1].args[4], calls[1].args[5])
              IN /\ Len(result.value) = Len(r.clients)
                 /\ \A i \in 1..Len(r.clients) :
                       /\ result.value[i].agentId = op.args[1]
                       /\ result.value[i].clientAddress = r.clients[i]
                       /\ result.value[i].feedbackIndex = r.feedbackIndexes[i]
                       /\ result.value[i].value = r.values[i]
                       /\ result.value[i].valueDecimals = r.valueDecimals[i]
                       /\ result.value[i].tag1 = r.tag1s[i]
                       /\ result.value[i].tag2 = r.tag2s[i]
                       /\ result.value[i].isRevoked = r.revokedStatuses[i]

\* readAllFeedback without a client filter returned two records
C19_TwoRecordsUnfiltered ==
    /\ pc = "idle"
    /\ op.name = "readAllFeedback"
    /\ ~op.args[2].defined
    /\ ~op.args[5].defined
    /\ calls[1].args[2] = <<>>
    /\ calls[1].args[5] = FALSE
    /\ result.status = "ok"
    /\ Len(result.value) = 2
    /\ result.value[1].feedbackIndex # result.value[2].feedbackIndex

\* C20: every giveFeedback transaction carries eight arguments: agentId,
\* value and valueDecimals as given, then tag1, tag2, endpoint and
\* feedbackURI, each as given or '' when absent, then feedbackHash as given
\* or the zero hash when absent
C20_FeedbackArgsComplete ==
    (op.name = "giveFeedback" /\ calls # <<>>) =>
        /\ calls[1].kind = "submit"
        /\ calls[1].method = "giveFeedback"
        /\ Len(calls[1].args) = 8
        /\ calls[1].args[1] = op.args[1].agentId
        /\ calls[1].args[2] = op.args[1].value
        /\ calls[1].args[3] = op.args[1].valueDecimals
        /\ SentOrEmpty(op.args[1].tag1, calls[1].args[4])
        /\ SentOrEmpty(op.args[1].tag2, calls[1].args[5])
        /\ SentOrEmpty(op.args[1].endpoint, calls[1].args[6])
        /\ SentOrEmpty(op.args[1].feedbackURI, calls[1].args[7])
        /\ calls[1].args[8] =
              (IF op.args[1].feedbackHash = Undefined
               THEN <<"0", "x", "0">> ELSE op.args[1].feedbackHash)
        /\ pending # NoTx => pending.args = calls[1].args

\* a giveFeedback without optional fields was submitted with the sentinels
C20_SentinelsSubmitted ==
    /\ op.name = "giveFeedback"
    /\ op.args[1].tag1 = Undefined
    /\ op.args[1].feedbackHash = Undefined
    /\ calls # <<>>
    /\ calls[1].args[4] = <<>>
    /\ calls[1].args[8] = ZeroHash
    /\ pc = "idle"
    /\ result.status = "ok"

\* whether two strings are equal up to the case of their letters
SameIgnoringCase(a, b) ==
    /\ Len(a) = Len(b)
    /\ \A i \in 1..Len(a) :
          \/ a[i] = b[i]
          \/ \E j \in 1..26 : {a[i], b[i]} = {UpperLetters[j], LowerLetters[j]}

\* C21: verifyRegistryLinks returns true exactly when the address the
\* reputation registry reports and the address the validation registry
\* reports both equal, up to the case of their letters, the configured
\* identity registry address, false when either differs; the call makes two
\* reads and nothing else
C21_LinksVerified ==
    (op.name = "verifyRegistryLinks") =>
        /\ \A i \in 1..Len(calls) : calls[i].kind = "read"
        /\ pending = NoTx
        /\ (pc = "idle" /\ result.status = "ok") =>
              /\ Len(calls) = 2
              /\ result.value =
                    (/\ SameIgnoringCase(locals.reputationIdentity,
                                         <<"0", "x", "A", "b", "9", "E">>)
                     /\ SameIgnoringCase(locals.validationIdentity,
                                         <<"0", "x", "A", "b", "9", "E">>))

\* the registries reported the configured address in lower and in upper
\* case, and verifyRegistryLinks returned true
C21_LinkedInOtherCase ==
    /\ pc = "idle"
    /\ op.name = "verifyRegistryLinks"
    /\ result.status = "ok"
    /\ locals.reputationIdentity = <<"0", "x", "a", "b", "9", "e">>
    /\ locals.validationIdentity = <<"0", "x", "A", "B", "9", "E">>
    /\ result.value = TRUE

\* C22: nothing is cached and nothing is retried: every call of
\* getAgentRegistrationFile, whatever the call before it was and however it
\* ended, reads tokenURI(agentId) first and, when the URI the chain holds at
\* that moment (the one the last confirmed setAgentURI wrote) is an ipfs://
\* or http(s):// URI, issues exactly one GET for that URI; when the fetch
\* settles the call ends, with the fetch error if the fetch failed, and no
\* further GET is made
C22_NoCacheNoRetry ==
    [][/\ (pc = "idle" /\ op'.name = "getAgentRegistrationFile") =>
             LET agentId == op'.args[1] IN
             /\ Len(calls') >= 1
             /\ calls'[1] = Event("read", "tokenURI", <<agentId>>)
             /\ (/\ Registered(agentId)
                 /\ result'.error # "call failed"
                 /\ \/ StartsWith(agents[agentId].uri, IpfsScheme)
                    \/ StartsWith(agents[agentId].uri, HttpScheme)
                    \/ StartsWith(agents[agentId].uri, HttpsScheme)) =>
                   /\ pc' = "fetching"
                   /\ Len(calls') = 2
                   /\ calls'[2] =
                         Event("fetch", "GET", <<FetchURL(agents[agentId].uri)>>)
       /\ pc = "fetching" =>
             /\ pc' = "idle"
             /\ calls' = calls
             /\ op' = op
             /\ result'.status \in {"ok", "error"}
      ]_vars

\* getAgentRegistrationFile of an agent whose URI a confirmed setAgentURI
\* wrote has read the URI and issued one GET, for that URI
C22_FetchedAgain ==
    /\ pc = "fetching"
    /\ op.name = "getAgentRegistrationFile"
    /\ agents[op.args[1]].uri = IpfsURI
    /\ Len(calls) = 2
    /\ calls[2] = Event("fetch", "GET", <<IpfsGateway \o <<"Q", "m", "T">> >>)

\* the read operations of the three accessors and the four aggregator operations
ReadOps ==
    {"getAgentURI", "getAgentRegistrationFile", "getMetadata", "getAgentWallet",
     "getOwner", "getSummary", "readFeedback", "readAllFeedback", "getClients",
     "getLastIndex", "getValidationStatus", "getAgentValidations",
     "getValidatorRequests", "reputation.getIdentityRegistry",
     "validation.getIdentityRegistry", "verifyRegistryLinks", "getAgentInfo",
     "getAgentReputation", "getAgentValidationSummary"}

\* C23: on a client with or without a signer, no step of a read operation of
\* the three accessors or of the four aggregator operations changes the
\* registries or the account's nonce, none submits a transaction, and none
\* fails with a "Signer required" error.
C23_ReadsOnlyRead ==
    [][op'.name \in ReadOps =>
          /\ UNCHANGED <<chain, nonce>>
          /\ pending' = NoTx
          /\ \A i \in 1..Len(calls') : calls'[i].kind \notin TxEvents
          /\ result'.status = "error" => result'.error \notin SignerRequiredMessages
      ]_vars

\* on a client without a signer, getAgentValidationSummary has made its two
\* reads and returned
C23_ReadWithoutSigner ==
    /\ ~signer
    /\ op.name = "getAgentValidationSummary"
    /\ result.status = "ok"
    /\ Len(calls) = 2

\* C24: for decimals in 0..18 and a value with at most that many decimal
\* digits, toFixedPoint succeeds and fromFixedPoint of its result with the
\* same decimals is the value again; toFixedPoint(4.5, 1) is 45,
\* toFixedPoint(99.99, 2) is 9999 and fromFixedPoint(45, 1) is 4.5.
C24_FixedPointRoundTrip ==
    /\ (/\ op.name = "toFixedPoint"
        /\ op.args[2] \in 0..18
        /\ op.args[1].scale <= op.args[2]) =>
          /\ result.status = "ok"
          /\ fromFixedPoint(result.value, op.args[2]).value = Literal(op.args[1])
    /\ (op.name = "toFixedPoint" /\ op.args = <<Dec(45, 1), 1>>) =>
          result.value = LFromInt(45)
    /\ (op.name = "toFixedPoint" /\ op.args = <<Dec(9999, 2), 2>>) =>
          result.value = LFromInt(9999)
    /\ (op.name = "fromFixedPoint" /\ op.args = <<45, 1>>) =>
          result.value = Literal(Dec(45, 1))

\* toFixedPoint(32.2, 14) has returned 3220000000000001, which fromFixedPoint
\* takes to a number other than 32.2
C24_RoundTripBroken ==
    /\ op.name = "toFixedPoint"
    /\ op.args = <<Dec(322, 1), 14>>
    /\ result.status = "ok"
    /\ result.value = LAdd(LMul(LFromInt(322), Pow10(13)), <<1>>)
    /\ fromFixedPoint(result.value, 14).value # Literal(Dec(322, 1))

\* the number of colons in a string
Colons(s) == Cardinality({i \in 1..Len(s) : s[i] = Colon})

FormatErrors ==
    {"Invalid agent registry format",
     "Invalid agent registry format. Expected: namespace:chainId:identityRegistry"}

\* C25: formatting three components that hold no colon, with either
\* formatter, gives a string that both parsers take back to the same three
\* components, and the two formatters give the same string; either parser
\* fails with its format error exactly on the strings that do not split into
\* three colon-separated parts, and the two parsers succeed on the same
\* strings with the same value.
C25_RegistryRoundTrip ==
    /\ op.name \in {"formatAgentRegistryString", "formatAgentRegistry"} =>
          LET r == IF op.name = "formatAgentRegistry" THEN op.args[1]
                   ELSE [namespace |-> op.args[1], chainId |-> op.args[2],
                         identityRegistry |-> op.args[3]]
          IN /\ result.status = "ok"
             /\ result.value = formatAgentRegistryString(r.namespace, r.chainId,
                                                         r.identityRegistry)
             /\ result.value = formatAgentRegistry(r)
             /\ (Colons(r.namespace) + Colons(r.chainId)
                   + Colons(r.identityRegistry) = 0) =>
                   /\ parseAgentRegistryString(result.value) = [ok |-> TRUE, value |-> r]
                   /\ parseAgentRegistry(result.value) = [ok |-> TRUE, value |-> r]
    /\ op.name \in {"parseAgentRegistryString", "parseAgentRegistry"} =>
          /\ IF Colons(op.args[1]) # 2
             THEN result.status = "error" /\ result.error \in FormatErrors
             ELSE result.status = "ok"
          /\ parseAgentRegistryString(op.args[1]).ok = parseAgentRegistry(op.args[1]).ok
          /\ result.status = "ok" =>
                /\ result.value = parseAgentRegistryString(op.args[1]).value
                /\ result.value = parseAgentRegistry(op.args[1]).value

\* formatAgentRegistryString('eip155', '1', '0xAb') has returned 'eip155:1:0xAb'
C25_RegistryFormatted ==
    /\ op.name = "formatAgentRegistryString"
    /\ op.args = <<<<"e","i","p","1","5","5">>, <<"1">>, <<"0","x","A","b">> >>
    /\ result.status = "ok"
    /\ result.value = <<"e","i","p","1","5","5",":","1",":","0","x","A","b">>

\* C26: whenever register is called with a non-empty metadata list, the
\* transaction it submits carries exactly those entries, whether agentURI is
\* given, absent or the empty string.
C26_MetadataSubmitted ==
    (/\ op.name = "register"
     /\ op.args[2].defined
     /\ Len(op.args[2].items) > 0
     /\ Len(calls) > 0) =>
        /\ calls[1].kind = "submit"
        /\ Len(calls[1].args) = 2
        /\ calls[1].args[2] = op.args[2].items

\* register was called without an agentURI and with one metadata entry, and
\* the transaction it submitted is register() with no argument
C26_MetadataDropped ==
    /\ op.name = "register"
    /\ op.args[1] = Undefined
    /\ op.args[2].items = <<MetadataEntry>>
    /\ Len(calls) > 0
    /\ calls[1] = Event("submit", "register()", <<>>)

\* C27: whenever clawpass_give_feedback is given a value and a valueDecimals
\* in 0..18 and calls giveFeedback, the call carries that valueDecimals, and
\* as value toFixedPoint of the given value with that valueDecimals.
C27_DecimalsHonoured ==
    (/\ op.name = "clawpass_give_feedback"
     /\ op.args[2].valueDecimals.defined
     /\ op.args[2].valueDecimals.digits \in 0..18
     /\ Len(calls) > 0) =>
        LET params == op.args[2]
            sent == calls[1].args[1]
        IN /\ calls[1].method = "reputation.giveFeedback"
           /\ sent.valueDecimals = params.valueDecimals.digits
           /\ sent.value =
                 toFixedPoint(Literal(Dec(params.value.digits, params.value.scale)),
                              params.valueDecimals.digits).value

\* clawpass_give_feedback was given value 5 and valueDecimals 0, and has
\* called giveFeedback with value 50 and valueDecimals 1
C27_ZeroDecimalsReplaced ==
    /\ op.name = "clawpass_give_feedback"
    /\ op.args[2].value = NumberParam(5, 0)
    /\ op.args[2].valueDecimals = NumberParam(0, 0)
    /\ Len(calls) > 0
    /\ calls[1].method = "reputation.giveFeedback"
    /\ calls[1].args[1].valueDecimals = 1
    /\ calls[1].args[1].value = LFromInt(50)

ToolNames ==
    {"clawpass_get_agent_info", "clawpass_get_reputation", "clawpass_give_feedback",
     "clawpass_request_validation", "clawpass_validation_status"}

\* C30: for every configuration and every params, execute of each of the
\* five tools resolves to a text content and never rejects; it resolves
\* without any call of the client when the client cannot be built or a
\* required input is missing, and with 'Error: ' and the message when the
\* operation it awaited has failed.
C30_ToolsNeverReject ==
    (op.name \in ToolNames /\ pc = "idle") =>
        /\ result.status = "ok"
        /\ Len(result.value) = 1
        /\ result.value[1].type = "text"
        /\ connection = NoClient =>
              /\ calls = <<>>
              /\ result.value[1].text.prefix \in {NotConfigured, NotConfiguredLong}
        /\ (/\ op.name = "clawpass_get_reputation"
            /\ connection # NoClient
            /\ op.args[2].agentId.defined
            /\ (~op.args[2].trustedClients.defined
                \/ Len(op.args[2].trustedClients.items) = 0)) =>
              /\ calls = <<>>
              /\ result.value[1].text.prefix =
                    "trustedClients must be a non-empty array (Sybil protection)."
        /\ (/\ op.name = "clawpass_request_validation"
            /\ connection # NoClient
            /\ ~Truthy(op.args[2].requestHash)
            /\ ~Truthy(op.args[2].requestData)) =>
              /\ calls = <<>>
              /\ result.value[1].text.prefix = "Provide requestHash or requestData."

\* clawpass_validation_status was executed under a complete configuration
\* whose privateKey is not a private key, and its promise has rejected
C30_ToolRejected ==
    /\ op.name = "clawpass_validation_status"
    /\ op.args[1].rpcUrl
    /\ op.args[1].validationRegistryAddress
    /\ op.args[1].privateKey = "malformed"
    /\ pc = "idle"
    /\ result.status = "error"
    /\ result.error = InvalidPrivateKey

\* C28: the summary and the feedback list getAgentReputation returns describe
\* the same state of the registry: summary.count is the number of feedback
\* records returned, also when other accounts give or revoke feedback for
\* the agent while the call is in progress.
C28_ConsistentView ==
    (op.name = "getAgentReputation" /\ pc = "idle" /\ result.status = "ok") =>
        result.value.summary.count = Len(result.value.feedback)

\* getAgentReputation has returned a summary of no feedback together with one
\* feedback record, given by a trusted client between its two reads
C28_SummaryStale ==
    /\ op.name = "getAgentReputation"
    /\ pc = "idle"
    /\ result.status = "ok"
    /\ result.value.summary.count = 0
    /\ Len(result.value.feedback) = 1
    /\ result.value.feedback[1].clientAddress = OtherAddress

\* C29: every document that getAgentRegistrationFile, getFeedbackFile or
\* parseDataURI returns after decoding the content of a URI passes the
\* validation of its schema.
C29_OnlyValidatedDocuments ==
    (pc = "idle" /\ result.status = "ok") =>
        /\ op.name \in {"getAgentRegistrationFile", "parseDataURI"} =>
              AgentRegistrationFileSchemaParse(result.value).ok
        /\ op.name = "getFeedbackFile" => FeedbackFileSchemaParse(result.value).ok

\* parseDataURI has returned the document of a data URI whose type is not the
\* registration type, which AgentRegistrationFileSchema rejects
C29_UnvalidatedReturned ==
    /\ op.name = "parseDataURI"
    /\ result.status = "ok"
    /\ result.value = WrongTypeDoc
    /\ ~AgentRegistrationFileSchemaParse(result.value).ok

=============================================================================
